---- MODULE Spec2Model ----
(***************************************************************************)
(* Model of depizza-enterprise: the order aggregate, Money, the pricing    *)
(* strategies and the user aggregate (domain/order/order.ts,               *)
(* domain/order/pricing.ts, domain/shared/money.ts, domain/shared/types.ts,*)
(* domain/user/user.ts), the use cases RegisterUserUseCase and             *)
(* AuthenticateUserUseCase, DrizzleUserRepository with the domain event    *)
(* dispatcher, memoize and the request middleware.                         *)
(*                                                                         *)
(* Money amounts are JavaScript numbers, computed as binary64 values.  A   *)
(* call of a Money operation that throws yields a value whose field threw  *)
(* is TRUE.                                                                *)
(* An absent Date (undefined / null) is the empty sequence, a Date t is    *)
(* <<t>>, t in milliseconds.  Strings that are trimmed are sequences of    *)
(* characters.                                                             *)
(***************************************************************************)
EXTENDS Integers, Sequences, FiniteSets, TLC

VARIABLES
  props,                 \* the OrderProps handed to Order.create
  phase,                 \* "start" | "order" | "rejected" | "threw"
  status,                \* Order._status
  paymentStatus,         \* Order._paymentStatus
  estimatedDeliveryTime, \* Order._estimatedDeliveryTime
  items,                 \* Order.items
  deliveryType,          \* Order.deliveryType
  deliveryAddress,       \* Order.deliveryAddress (<<>> is null)
  totalAmount,           \* Order.totalAmount
  tax,                   \* Order.tax
  deliveryFee,           \* Order.deliveryFee
  domainEvents,          \* BaseAggregateRoot._domainEvents
  now,                   \* Date.now()
  call,                  \* the last call made and what it returned
  paidCalled,            \* markPaymentAsPaid() has been called
  cleared,               \* clearEvents() has been called
  money,                 \* Money values in hand and the last Money call
  pricing,               \* a pricing request and the price calculated for it
  user,                  \* a User aggregate and the last call made on it
  register,              \* the users table and the RegisterUserUseCase calls in flight
  auth,                  \* the stored accounts and an AuthenticateUserUseCase call
  memo,                  \* a memoized function, its cache and its calls
  repo,                  \* DrizzleUserRepository: a user, the users table, the dispatcher
  mw                     \* a request handled by the middleware

orderVars == <<props, phase, status, paymentStatus, estimatedDeliveryTime,
               items, deliveryType, deliveryAddress, totalAmount, tax,
               deliveryFee, domainEvents, now, call, paidCalled, cleared>>

vars == <<props, phase, status, paymentStatus, estimatedDeliveryTime,
          items, deliveryType, deliveryAddress, totalAmount, tax,
          deliveryFee, domainEvents, now, call, paidCalled, cleared,
          money, pricing, user, register, auth, memo, repo, mw>>

appVars == <<register, auth, memo, repo, mw>>

(***************************************************************************)
(* Bounds                                                                  *)
(***************************************************************************)
MaxItems == 2      \* longest item list handed to Order.create
MaxQuantity == 2   \* largest item quantity
MaxNow == 1        \* latest reading of the clock
MaxEvents == 6     \* longest list of pending domain events

(***************************************************************************)
(* JavaScript numbers: IEEE 754 binary64, round to nearest, ties to even.  *)
(* A finite number is (-1)^s * (hi * 2^26 + lo) * 2^e with a 53-bit        *)
(* significand; NaN is the only other value the bounds reach.  Naturals    *)
(* longer than 31 bits are little-endian sequences of 13-bit limbs.        *)
(***************************************************************************)
MantissaBits == 53
LimbBits == 13
Base == 2 ^ LimbBits

\* propagate carries through the limbs of l, c carried in
RECURSIVE Carry(_, _)
Carry(l, c) ==
  IF l = <<>> THEN (IF c = 0 THEN <<>> ELSE <<c % Base>> \o Carry(<<>>, c \div Base))
  ELSE <<(Head(l) + c) % Base>> \o Carry(Tail(l), (Head(l) + c) \div Base)

\* drop the most significant limbs that are zero
RECURSIVE Strip(_)
Strip(l) ==
  IF l # <<>> /\ l[Len(l)] = 0 THEN Strip(SubSeq(l, 1, Len(l) - 1)) ELSE l

Limb(l, i) == IF i >= 1 /\ i <= Len(l) THEN l[i] ELSE 0

Longest(a, b) == IF Len(a) < Len(b) THEN Len(b) ELSE Len(a)

LAdd(a, b) == Strip(Carry([i \in 1..Longest(a, b) |-> Limb(a, i) + Limb(b, i)], 0))

RECURSIVE Borrow(_, _, _)
Borrow(a, b, c) ==
  IF a = <<>> THEN <<>>
  ELSE LET d == Head(a) - Limb(b, 1) - c
       IN <<d % Base>> \o Borrow(Tail(a), IF b = <<>> THEN b ELSE Tail(b),
                                 IF d < 0 THEN 1 ELSE 0)

\* a - b for a >= b
LSub(a, b) == Strip(Borrow(a, b, 0))

\* a <= b for stripped a and b
LLessEq(a, b) ==
  IF Len(a) # Len(b) THEN Len(a) < Len(b)
  ELSE \A i \in 1..Len(a) :
         a[i] > b[i] => \E j \in (i + 1)..Len(a) : a[j] < b[j]

RECURSIVE Column(_, _, _, _)
Column(a, b, k, i) ==
  IF i > Len(a) THEN 0
  ELSE Limb(a, i) * Limb(b, k + 1 - i) + Column(a, b, k, i + 1)

LMul(a, b) ==
  Strip(Carry([k \in 1..(Len(a) + Len(b)) |-> Column(a, b, k, 1)], 0))

\* a * 2^n
LShl(a, n) ==
  Strip([i \in 1..(n \div LimbBits) |-> 0]
        \o Carry([i \in 1..Len(a) |-> a[i] * 2 ^ (n % LimbBits)], 0))

\* one step of the short division: the limb h below the quotient and remainder up
DivStep(h, d, up) ==
  <<<<(up[2] * Base + h) \div d>> \o up[1], (up[2] * Base + h) % d>>

\* <<quotient, remainder>> of a by the small natural d, from the top limb
RECURSIVE LDivSmall(_, _)
LDivSmall(a, d) ==
  IF a = <<>> THEN <<<<>>, 0>> ELSE DivStep(Head(a), d, LDivSmall(Tail(a), d))

\* the natural n < 2^31 as limbs
IntToLimbs(n) == Strip(<<n % Base, (n \div Base) % Base, n \div (Base * Base)>>)

\* floor(a / 2^n)
LShr(a, n) ==
  LET l == SubSeq(a, (n \div LimbBits) + 1, Len(a))
  IN Strip(LDivSmall(l, 2 ^ (n % LimbBits))[1])

\* the number of bits of the stripped natural a
BitLen(a) ==
  IF a = <<>> THEN 0
  ELSE (Len(a) - 1) * LimbBits
       + CHOOSE n \in 1..LimbBits : a[Len(a)] < 2 ^ n /\ a[Len(a)] >= 2 ^ (n - 1)

NaN == [k |-> "nan", s |-> 0, hi |-> 0, lo |-> 0, e |-> 0]
Zero == [k |-> "fin", s |-> 0, hi |-> 0, lo |-> 0, e |-> 0]

IsNaN(x) == x.k = "nan"
IsZero(x) == x.k = "fin" /\ x.hi = 0 /\ x.lo = 0

\* the significand of x as limbs
Mant(x) == LAdd(IntToLimbs(x.lo), LShl(IntToLimbs(x.hi), 26))

\* the finite number with the 53-bit significand m
Pack(s, m, e) ==
  [k |-> "fin", s |-> s,
   hi |-> Limb(m, 3) + Limb(m, 4) * Base + Limb(m, 5) * Base * Base,
   lo |-> Limb(m, 1) + Limb(m, 2) * Base, e |-> e]

\* q * 2^e with a significand of 53 or 54 bits
Renorm(s, q, e) ==
  IF BitLen(q) > MantissaBits THEN Pack(s, LShr(q, 1), e + 1) ELSE Pack(s, q, e)

\* q rounded up when twice the remainder is past the unit, or at it and q is odd
RoundUp(s, q, e, twice, unit) ==
  Renorm(s, IF (IF twice = unit THEN q[1] % 2 = 1 ELSE ~LLessEq(twice, unit))
            THEN LAdd(q, <<1>>) ELSE q, e)

\* q = floor(n / 2^d)
RoundQuot(s, n, e, d, q) ==
  RoundUp(s, q, e + d, LShl(LSub(n, LShl(q, d)), 1), LShl(<<1>>, d))

\* d = the bits of n beyond the significand
RoundBits(s, n, e, d) ==
  IF d <= 0 THEN Pack(s, LShl(n, -d), e + d)
  ELSE RoundQuot(s, n, e, d, LShr(n, d))

\* the number nearest to (-1)^s * n * 2^e, ties to even
RoundNat(s, n, e) ==
  IF n = <<>> THEN Zero ELSE RoundBits(s, n, e, BitLen(n) - MantissaBits)

\* the number n, for an integer n
FromInt(n) ==
  IF n < 0 THEN RoundNat(1, IntToLimbs(-n), 0) ELSE RoundNat(0, IntToLimbs(n), 0)

Neg(x) == IF IsNaN(x) \/ IsZero(x) THEN x ELSE [x EXCEPT !.s = 1 - x.s]

\* x + y
AddAligned(sx, a, sy, b, e) ==
  IF sx = sy THEN RoundNat(sx, LAdd(a, b), e)
  ELSE IF LLessEq(a, b) THEN RoundNat(sy, LSub(b, a), e)
  ELSE RoundNat(sx, LSub(a, b), e)

AddAt(x, y, e) ==
  AddAligned(x.s, LShl(Mant(x), x.e - e), y.s, LShl(Mant(y), y.e - e), e)

NumAdd(x, y) ==
  IF IsNaN(x) \/ IsNaN(y) THEN NaN
  ELSE IF IsZero(x) THEN y
  ELSE IF IsZero(y) THEN x
  ELSE AddAt(x, y, IF x.e < y.e THEN x.e ELSE y.e)

\* x - y
NumSub(x, y) == NumAdd(x, Neg(y))

\* x * y
NumMul(x, y) ==
  IF IsNaN(x) \/ IsNaN(y) THEN NaN
  ELSE IF IsZero(x) \/ IsZero(y) THEN Zero
  ELSE RoundNat((x.s + y.s) % 2, LMul(Mant(x), Mant(y)), x.e + y.e)

\* x / d for a natural d with 0 < d < 2^14
Sticky(qr) == LAdd(LShl(Strip(qr[1]), 1), IF qr[2] = 0 THEN <<>> ELSE <<1>>)

NumDivInt(x, d) ==
  IF IsNaN(x) THEN NaN
  ELSE IF IsZero(x) THEN Zero
  ELSE RoundNat(x.s, Sticky(LDivSmall(LShl(Mant(x), 16), d)), x.e - 17)

\* x < y
IsNegative(x) == x.s = 1 /\ ~IsZero(x)

NumLess(x, y) ==
  IF IsNaN(x) \/ IsNaN(y) THEN FALSE ELSE IsNegative(NumSub(x, y))

\* x === y
NumEq(x, y) == ~IsNaN(x) /\ ~IsNaN(y) /\ x = y

\* Math.round(x): the integer nearest to x, halves going up
HalfUp(s, int, twice, unit) ==
  RoundNat(s, IF (IF s = 0 THEN LLessEq(unit, twice) ELSE ~LLessEq(twice, unit))
              THEN LAdd(int, <<1>>) ELSE int, 0)

\* int = floor(m / 2^d)
RoundInt(s, m, d, int) ==
  HalfUp(s, int, LShl(LSub(m, LShl(int, d)), 1), LShl(<<1>>, d))

RoundMant(s, m, d) == RoundInt(s, m, d, LShr(m, d))

MathRound(x) ==
  IF IsNaN(x) \/ IsZero(x) \/ x.e >= 0 THEN x
  ELSE IF -x.e > MantissaBits + 1 THEN Zero
  ELSE RoundMant(x.s, Mant(x), -x.e)

\* the number written as the decimal n / 10^k, for 10^k < 2^14
Dec(n, k) == NumDivInt(FromInt(n), 10 ^ k)

(***************************************************************************)
(* money.ts                                                                *)
(***************************************************************************)
Currency == {"USD", "EUR"}

Thrown == [threw |-> TRUE, amount |-> Zero, currency |-> "USD"]

\* new Money(amount, currency): the constructor throws on a negative amount
Money(amount, currency) ==
  IF NumLess(amount, Zero) THEN Thrown
  ELSE [threw |-> FALSE, amount |-> amount, currency |-> currency]

\* Money.create(amount, currency)
MoneyCreate(amount, currency) == Money(amount, currency)

\* Money.fromCents(cents, currency)
MoneyFromCents(cents, currency) == Money(NumDivInt(cents, 100), currency)

\* a.toCents()
MoneyToCents(a) == MathRound(NumMul(a.amount, FromInt(100)))

ensureSameCurrency_off(a, b) == FALSE

\* ensureSameCurrency: TRUE when it throws
ensureSameCurrency(a, b) == a.currency # b.currency

\* a.add(b); a throw of an operand's computation propagates
MoneyAdd(a, b) ==
  IF a.threw \/ b.threw THEN Thrown
  ELSE IF ensureSameCurrency(a, b) THEN Thrown
  ELSE Money(NumAdd(a.amount, b.amount), a.currency)

\* a.subtract(b)
Difference(result, currency) ==
  IF NumLess(result, Zero) THEN Thrown ELSE Money(result, currency)

MoneySubtract(a, b) ==
  IF a.threw \/ b.threw THEN Thrown
  ELSE IF ensureSameCurrency(a, b) THEN Thrown
  ELSE Difference(NumSub(a.amount, b.amount), a.currency)

\* a.multiply(factor)
MoneyMultiply(a, factor) ==
  IF a.threw THEN Thrown
  ELSE IF NumLess(factor, Zero) THEN Thrown
  ELSE Money(NumMul(a.amount, factor), a.currency)

\* a.equals(b) for a Money b
MoneyEquals(a, b) == NumEq(a.amount, b.amount) /\ a.currency = b.currency

\* a.isGreaterThan(b): "true", "false" or "ValidationError" when it throws
MoneyIsGreaterThan(a, b) ==
  IF ensureSameCurrency(a, b) THEN "ValidationError"
  ELSE IF NumLess(b.amount, a.amount) THEN "true" ELSE "false"

\* a.isLessThan(b)
MoneyIsLessThan(a, b) ==
  IF ensureSameCurrency(a, b) THEN "ValidationError"
  ELSE IF NumLess(a.amount, b.amount) THEN "true" ELSE "false"

(***************************************************************************)
(* order.ts: Order.create and its helpers                                  *)
(***************************************************************************)
OrderStatus == {"PENDING", "CONFIRMED", "PREPARING", "READY",
                "OUT_FOR_DELIVERY", "DELIVERED", "CANCELLED"}
PaymentStatus == {"PENDING", "PAID", "FAILED", "REFUNDED"}
DeliveryType == {"PICKUP", "DELIVERY"}

\* String.prototype.trim on a sequence of characters
RECURSIVE TrimLeft(_)
TrimLeft(s) ==
  IF s # <<>> /\ Head(s) = " " THEN TrimLeft(Tail(s)) ELSE s

RECURSIVE TrimRight(_)
TrimRight(s) ==
  IF s # <<>> /\ s[Len(s)] = " " THEN TrimRight(SubSeq(s, 1, Len(s) - 1)) ELSE s

trim(s) == TrimRight(TrimLeft(s))

RECURSIVE SumQuantity(_)
SumQuantity(its) ==
  IF its = <<>> THEN 0 ELSE Head(its).quantity + SumQuantity(Tail(its))

\* validateOrderProps: "ok" or the message of the ValidationError returned
validateOrderProps(p) ==
  IF trim(p.name) = <<>> THEN "Customer name is required"
  ELSE IF trim(p.phone) = <<>> THEN "Customer phone is required"
  ELSE IF Len(p.items) = 0 THEN "Order must contain at least one item"
  ELSE IF p.deliveryType = "DELIVERY" /\ p.deliveryAddress = <<>>
    THEN "Delivery address is required for delivery orders"
  ELSE IF \E i \in 1..Len(p.items) : p.items[i].quantity <= 0
    THEN "Item quantity must be positive"
  ELSE "ok"

RECURSIVE Reduce(_, _)
Reduce(total, its) ==
  IF its = <<>> THEN total
  ELSE Reduce(MoneyAdd(total, Head(its).totalPrice), Tail(its))

\* items.reduce((total, item) => total.add(item.totalPrice), items[0].totalPrice.multiply(0))
calculateTotalAmount(its) ==
  Reduce(MoneyMultiply(its[1].totalPrice, FromInt(0)), its)

\* amount.multiply(0.1)
calculateTax(amount) == MoneyMultiply(amount, Dec(1, 1))

calculateDeliveryFee_flat(dt) == MoneyCreate(FromInt(5), "USD")

calculateDeliveryFee(dt) ==
  IF dt = "PICKUP" THEN MoneyCreate(FromInt(0), "USD")
  ELSE MoneyCreate(FromInt(5), "USD")

\* get grandTotal
grandTotal(total, tx, fee) == MoneyAdd(MoneyAdd(total, tx), fee)

(***************************************************************************)
(* Inputs of Order.create                                                  *)
(***************************************************************************)
Names == {<<>>, <<" ">>, <<" ", "a">>}
Prices == {Dec(1299, 2)}
Addresses == {<<>>, <<"street">>}

OrderItem == [quantity : (-1)..MaxQuantity,
              totalPrice : {Money(a, c) : a \in Prices, c \in Currency}]

ItemLists == UNION {[1..n -> OrderItem] : n \in 0..MaxItems}

OrderProps == [name : Names, phone : Names, items : ItemLists,
               deliveryType : DeliveryType, deliveryAddress : Addresses]

NoMoney == Money(Zero, "USD")

Returned(op, result) == [op |-> op, result |-> result]

\* the value of a part of the model that a specification leaves aside
Idle == [call |-> Returned("none", "none")]

NoApp ==
  /\ register = Idle
  /\ auth = Idle
  /\ memo = Idle
  /\ repo = Idle
  /\ mw = Idle

Init ==
  /\ props \in OrderProps
  /\ phase = "start"
  /\ status = "none"
  /\ paymentStatus = "none"
  /\ estimatedDeliveryTime = <<>>
  /\ items = <<>>
  /\ deliveryType = "none"
  /\ deliveryAddress = <<>>
  /\ totalAmount = NoMoney
  /\ tax = NoMoney
  /\ deliveryFee = NoMoney
  /\ domainEvents = <<>>
  /\ now = 0
  /\ call = Returned("none", "none")
  /\ paidCalled = FALSE
  /\ cleared = FALSE
  /\ money = Idle
  /\ pricing = Idle
  /\ user = Idle
  /\ NoApp

(***************************************************************************)
(* types.ts: BaseAggregateRoot                                             *)
(***************************************************************************)
addDomainEvent(event) == domainEvents' = Append(domainEvents, event)

clearEvents ==
  /\ phase = "order"
  /\ domainEvents' = <<>>
  /\ cleared' = TRUE
  /\ call' = Returned("clearEvents", "void")
  /\ UNCHANGED <<props, phase, status, paymentStatus, estimatedDeliveryTime,
                 items, deliveryType, deliveryAddress, totalAmount, tax,
                 deliveryFee, now, paidCalled>>

OrderCreatedEvent(total) ==
  [type |-> "OrderCreatedEvent", totalAmount |-> total]

OrderStatusChangedEvent(previousStatus, newStatus) ==
  [type |-> "OrderStatusChangedEvent", previousStatus |-> previousStatus,
   newStatus |-> newStatus]

(***************************************************************************)
(* order.ts: Order.create                                                  *)
(***************************************************************************)
create ==
  /\ phase = "start"
  /\ LET validation == validateOrderProps(props)
         total == calculateTotalAmount(props.items)
         tx == calculateTax(total)
         fee == calculateDeliveryFee(props.deliveryType)
         grand == grandTotal(total, tx, fee)
     IN IF validation # "ok"
        THEN /\ phase' = "rejected"
             /\ call' = Returned("create", "ValidationError")
             /\ UNCHANGED <<status, paymentStatus, items, deliveryType,
                            deliveryAddress, totalAmount, tax, deliveryFee,
                            domainEvents>>
        ELSE IF total.threw \/ tx.threw \/ fee.threw \/ grand.threw
        THEN /\ phase' = "threw"
             /\ call' = Returned("create", "threw")
             /\ UNCHANGED <<status, paymentStatus, items, deliveryType,
                            deliveryAddress, totalAmount, tax, deliveryFee,
                            domainEvents>>
        ELSE /\ phase' = "order"
             /\ call' = Returned("create", "Ok")
             /\ status' = "PENDING"
             /\ paymentStatus' = "PENDING"
             /\ items' = props.items
             /\ deliveryType' = props.deliveryType
             /\ deliveryAddress' = props.deliveryAddress
             /\ totalAmount' = total
             /\ tax' = tx
             /\ deliveryFee' = fee
             /\ addDomainEvent(OrderCreatedEvent(grand))
  /\ UNCHANGED <<props, estimatedDeliveryTime, now, paidCalled, cleared>>

(***************************************************************************)
(* order.ts: status transitions                                            *)
(***************************************************************************)
changeStatus_stale(newStatus) ==
  /\ Len(domainEvents) < MaxEvents
  /\ status' = newStatus
  /\ addDomainEvent(OrderStatusChangedEvent(newStatus, newStatus))

changeStatus(newStatus) ==
  /\ Len(domainEvents) < MaxEvents
  /\ status' = newStatus
  /\ addDomainEvent(OrderStatusChangedEvent(status, newStatus))

calculateEstimatedDeliveryTime_noDelivery ==
  estimatedDeliveryTime' = <<now + (20 * SumQuantity(items) + 10) * 60000>>

\* (totalPreparationTime + deliveryTime + bufferTime) * 60000 past Date.now()
calculateEstimatedDeliveryTime ==
  LET totalPreparationTime == 20 * SumQuantity(items)
      deliveryTime == IF deliveryType = "DELIVERY" THEN 30 ELSE 0
      bufferTime == 10
  IN estimatedDeliveryTime' =
       <<now + (totalPreparationTime + deliveryTime + bufferTime) * 60000>>

\* the conditions under which a transition method returns Err
confirmErr_reopen(s) == s \notin {"PENDING", "CANCELLED"}

confirmErr(s) == s # "PENDING"

startPreparationErr_unpaid(s, pay) == s # "CONFIRMED"

startPreparationErr(s, pay) == s # "CONFIRMED" \/ pay # "PAID"

markAsReadyErr_skip(s) == s \notin {"PREPARING", "CONFIRMED"}

markAsReadyErr(s) == s # "PREPARING"

startDeliveryErr_pickup(s, dt) == s # "READY"

startDeliveryErr(s, dt) == s # "READY" \/ dt = "PICKUP"

markAsDeliveredErr_ready(s, dt) == s \notin {"READY", "OUT_FOR_DELIVERY"}

markAsDeliveredErr(s, dt) ==
  \/ dt = "PICKUP" /\ s # "READY"
  \/ dt = "DELIVERY" /\ s # "OUT_FOR_DELIVERY"

cancelErr_never(s) == FALSE

cancelErr_delivered(s) == s = "DELIVERED"

cancelErr(s) == s \in {"DELIVERED", "OUT_FOR_DELIVERY"}

Fail(op) ==
  /\ call' = Returned(op, "BusinessRuleViolationError")
  /\ UNCHANGED <<status, domainEvents>>

confirm ==
  /\ phase = "order"
  /\ IF confirmErr(status)
     THEN Fail("confirm") /\ UNCHANGED estimatedDeliveryTime
     ELSE /\ changeStatus("CONFIRMED")
          /\ calculateEstimatedDeliveryTime
          /\ call' = Returned("confirm", "Ok")
  /\ UNCHANGED <<props, phase, paymentStatus, items, deliveryType,
                 deliveryAddress, totalAmount, tax, deliveryFee, now,
                 paidCalled, cleared>>

startPreparation ==
  /\ phase = "order"
  /\ IF startPreparationErr(status, paymentStatus)
     THEN Fail("startPreparation")
     ELSE /\ changeStatus("PREPARING")
          /\ call' = Returned("startPreparation", "Ok")
  /\ UNCHANGED <<props, phase, paymentStatus, estimatedDeliveryTime, items,
                 deliveryType, deliveryAddress, totalAmount, tax, deliveryFee,
                 now, paidCalled, cleared>>

markAsReady ==
  /\ phase = "order"
  /\ IF markAsReadyErr(status)
     THEN Fail("markAsReady")
     ELSE /\ changeStatus("READY")
          /\ call' = Returned("markAsReady", "Ok")
  /\ UNCHANGED <<props, phase, paymentStatus, estimatedDeliveryTime, items,
                 deliveryType, deliveryAddress, totalAmount, tax, deliveryFee,
                 now, paidCalled, cleared>>

startDelivery ==
  /\ phase = "order"
  /\ IF startDeliveryErr(status, deliveryType)
     THEN Fail("startDelivery")
     ELSE /\ changeStatus("OUT_FOR_DELIVERY")
          /\ call' = Returned("startDelivery", "Ok")
  /\ UNCHANGED <<props, phase, paymentStatus, estimatedDeliveryTime, items,
                 deliveryType, deliveryAddress, totalAmount, tax, deliveryFee,
                 now, paidCalled, cleared>>

markAsDelivered ==
  /\ phase = "order"
  /\ IF markAsDeliveredErr(status, deliveryType)
     THEN Fail("markAsDelivered")
     ELSE /\ changeStatus("DELIVERED")
          /\ call' = Returned("markAsDelivered", "Ok")
  /\ UNCHANGED <<props, phase, paymentStatus, estimatedDeliveryTime, items,
                 deliveryType, deliveryAddress, totalAmount, tax, deliveryFee,
                 now, paidCalled, cleared>>

cancel ==
  /\ phase = "order"
  /\ IF cancelErr(status)
     THEN Fail("cancel")
     ELSE /\ changeStatus("CANCELLED")
          /\ call' = Returned("cancel", "Ok")
  /\ UNCHANGED <<props, phase, paymentStatus, estimatedDeliveryTime, items,
                 deliveryType, deliveryAddress, totalAmount, tax, deliveryFee,
                 now, paidCalled, cleared>>

markPaymentAsPaid ==
  /\ phase = "order"
  /\ paymentStatus' = "PAID"
  /\ paidCalled' = TRUE
  /\ call' = Returned("markPaymentAsPaid", "void")
  /\ UNCHANGED <<props, phase, status, estimatedDeliveryTime, items,
                 deliveryType, deliveryAddress, totalAmount, tax, deliveryFee,
                 domainEvents, now, cleared>>

markPaymentAsFailed_open ==
  /\ phase = "order"
  /\ paymentStatus' = IF status \in {"CANCELLED", "DELIVERED"}
                      THEN paymentStatus ELSE "FAILED"
  /\ call' = Returned("markPaymentAsFailed", "void")
  /\ UNCHANGED <<props, phase, status, estimatedDeliveryTime, items,
                 deliveryType, deliveryAddress, totalAmount, tax, deliveryFee,
                 domainEvents, now, paidCalled, cleared>>

markPaymentAsFailed ==
  /\ phase = "order"
  /\ paymentStatus' = "FAILED"
  /\ call' = Returned("markPaymentAsFailed", "void")
  /\ UNCHANGED <<props, phase, status, estimatedDeliveryTime, items,
                 deliveryType, deliveryAddress, totalAmount, tax, deliveryFee,
                 domainEvents, now, paidCalled, cleared>>

\* time passes between two calls
Tick ==
  /\ now < MaxNow
  /\ now' = now + 1
  /\ call' = Returned("tick", "void")
  /\ UNCHANGED <<props, phase, status, paymentStatus, estimatedDeliveryTime,
                 items, deliveryType, deliveryAddress, totalAmount, tax,
                 deliveryFee, domainEvents, paidCalled, cleared>>

Next ==
  \/ create /\ UNCHANGED <<money, pricing, user, appVars>>
  \/ confirm /\ UNCHANGED <<money, pricing, user, appVars>>
  \/ startPreparation /\ UNCHANGED <<money, pricing, user, appVars>>
  \/ markAsReady /\ UNCHANGED <<money, pricing, user, appVars>>
  \/ startDelivery /\ UNCHANGED <<money, pricing, user, appVars>>
  \/ markAsDelivered /\ UNCHANGED <<money, pricing, user, appVars>>
  \/ cancel /\ UNCHANGED <<money, pricing, user, appVars>>
  \/ markPaymentAsPaid /\ UNCHANGED <<money, pricing, user, appVars>>
  \/ markPaymentAsFailed /\ UNCHANGED <<money, pricing, user, appVars>>
  \/ clearEvents /\ UNCHANGED <<money, pricing, user, appVars>>
  \/ Tick /\ UNCHANGED <<money, pricing, user, appVars>>

Spec == Init /\ [][Next]_vars

(***************************************************************************)
(* money.ts: a receiver x, an argument b and the value r of a chain of     *)
(* calls x.op(b).op(b)... of at most MaxOps calls                          *)
(***************************************************************************)
MaxOps == 2

\* the order of the specifications that call no method of Order
NoProps == [name |-> <<>>, phone |-> <<>>, items |-> <<>>,
            deliveryType |-> "PICKUP", deliveryAddress |-> <<>>]

NoOrder ==
  /\ props = NoProps
  /\ phase = "start"
  /\ status = "none"
  /\ paymentStatus = "none"
  /\ estimatedDeliveryTime = <<>>
  /\ items = <<>>
  /\ deliveryType = "none"
  /\ deliveryAddress = <<>>
  /\ totalAmount = NoMoney
  /\ tax = NoMoney
  /\ deliveryFee = NoMoney
  /\ domainEvents = <<>>
  /\ now = 0
  /\ call = Returned("none", "none")
  /\ paidCalled = FALSE
  /\ cleared = FALSE

\* the numbers passed to Money.create, Money.fromCents and multiply
Amounts == {NaN, FromInt(-1), Dec(1, 1), Dec(2, 1)}
Cents == {FromInt(-5), FromInt(20)}
Factors == {FromInt(-1), Zero, Dec(5, 1)}

\* the Money values the chains start from
Monies == {MoneyCreate(a, c) : a \in {Dec(1, 1), Dec(2, 1)}, c \in Currency}

Called(op, recv, arg, num, cur, result) ==
  [op |-> op, recv |-> recv, arg |-> arg, num |-> num, cur |-> cur,
   result |-> result]

Outcome(m) == IF m.threw THEN "ValidationError" ELSE "Money"

InitMoney ==
  /\ NoOrder
  /\ NoApp
  /\ \E x \in Monies, b \in Monies :
       money = [x |-> x, b |-> b, r |-> x, ops |-> <<>>,
                call |-> Called("none", NoMoney, NoMoney, Zero, "USD", "none")]
  /\ pricing = Idle
  /\ user = Idle

\* a new receiver: the chain starts again from it
Receiver(op, m, num, cur) ==
  IF m.threw
  THEN money' = [money EXCEPT
                   !.call = Called(op, NoMoney, NoMoney, num, cur, Outcome(m))]
  ELSE money' = [money EXCEPT
                   !.x = m, !.r = m, !.ops = <<>>,
                   !.call = Called(op, NoMoney, NoMoney, num, cur, Outcome(m))]

MoneyCreateCall ==
  \E amount \in Amounts, currency \in Currency :
    Receiver("create", MoneyCreate(amount, currency), amount, currency)

MoneyFromCentsCall ==
  \E cents \in Cents, currency \in Currency :
    Receiver("fromCents", MoneyFromCents(cents, currency), cents, currency)

\* r.op(...) has returned or thrown m
Chained(op, m, num) ==
  money' = [money EXCEPT
              !.r = m, !.ops = Append(money.ops, op),
              !.call = Called(op, money.r, money.b, num, money.r.currency,
                              Outcome(m))]

CanChain == ~money.r.threw /\ Len(money.ops) < MaxOps

MoneyAddCall == CanChain /\ Chained("add", MoneyAdd(money.r, money.b), Zero)

MoneySubtractCall ==
  CanChain /\ Chained("subtract", MoneySubtract(money.r, money.b), Zero)

MoneyMultiplyCall ==
  /\ CanChain
  /\ \E factor \in Factors :
       Chained("multiply", MoneyMultiply(money.r, factor), factor)

Compared(op, result) ==
  money' = [money EXCEPT
              !.call = Called(op, money.r, money.b, Zero, money.r.currency,
                              result)]

MoneyEqualsCall ==
  /\ ~money.r.threw
  /\ Compared("equals", IF MoneyEquals(money.r, money.b) THEN "true" ELSE "false")

MoneyIsGreaterThanCall ==
  ~money.r.threw /\ Compared("isGreaterThan", MoneyIsGreaterThan(money.r, money.b))

MoneyIsLessThanCall ==
  ~money.r.threw /\ Compared("isLessThan", MoneyIsLessThan(money.r, money.b))

NextMoney ==
  \/ MoneyCreateCall /\ UNCHANGED <<orderVars, pricing, user, appVars>>
  \/ MoneyFromCentsCall /\ UNCHANGED <<orderVars, pricing, user, appVars>>
  \/ MoneyAddCall /\ UNCHANGED <<orderVars, pricing, user, appVars>>
  \/ MoneySubtractCall /\ UNCHANGED <<orderVars, pricing, user, appVars>>
  \/ MoneyMultiplyCall /\ UNCHANGED <<orderVars, pricing, user, appVars>>
  \/ MoneyEqualsCall /\ UNCHANGED <<orderVars, pricing, user, appVars>>
  \/ MoneyIsGreaterThanCall /\ UNCHANGED <<orderVars, pricing, user, appVars>>
  \/ MoneyIsLessThanCall /\ UNCHANGED <<orderVars, pricing, user, appVars>>

SpecMoney == InitMoney /\ [][NextMoney]_vars

(***************************************************************************)
(* pricing.ts: the pricing strategies                                      *)
(***************************************************************************)
MaxModifiers == 2

PizzaSize == {"SMALL", "MEDIUM", "LARGE", "XLARGE"}

multipliers ==
  [SMALL |-> Dec(8, 1), MEDIUM |-> FromInt(1), LARGE |-> Dec(13, 1),
   XLARGE |-> Dec(16, 1)]

getSizeMultiplier_swapped(size) ==
  multipliers[CASE size = "LARGE" -> "XLARGE" [] size = "XLARGE" -> "LARGE"
                [] OTHER -> size]

\* memoize returns what the function returns: it is pure
getSizeMultiplier(size) == multipliers[size]

BasePricingStrategy(basePrice, context) ==
  MoneyMultiply(basePrice, getSizeMultiplier(context.size))

discountRate == Dec(1, 1)
happyHourDiscount == Dec(15, 2)

\* 1 - this.discountRate and 1 - this.happyHourDiscount
VIPFactor == NumSub(FromInt(1), discountRate)
HappyHourFactor == NumSub(FromInt(1), happyHourDiscount)

VIPDiscount(baseCalculatedPrice, context) ==
  IF context.customerType = "VIP"
  THEN MoneyMultiply(baseCalculatedPrice, VIPFactor)
  ELSE baseCalculatedPrice

HappyHourDiscount(price, context) ==
  IF context.isHappyHour THEN MoneyMultiply(price, HappyHourFactor) ELSE price

VIPPricingStrategy_happyHour(basePrice, context) ==
  HappyHourDiscount(VIPDiscount(BasePricingStrategy(basePrice, context), context),
                    context)

VIPPricingStrategy(basePrice, context) ==
  VIPDiscount(BasePricingStrategy(basePrice, context), context)

HappyHourPricingStrategy(basePrice, context) ==
  HappyHourDiscount(VIPPricingStrategy(basePrice, context), context)

isModifierApplicable_exclusive(modifier, context) ==
  /\ context.orderTime > modifier.validFrom
  /\ context.orderTime < modifier.validTo
  /\ (modifier.applicableToSizes = <<>>
       \/ context.size \in modifier.applicableToSizes[1])

isModifierApplicable(modifier, context) ==
  /\ context.orderTime >= modifier.validFrom
  /\ context.orderTime <= modifier.validTo
  /\ (modifier.applicableToSizes = <<>>
       \/ context.size \in modifier.applicableToSizes[1])

\* for (const modifier of applicableModifiers) price = price.multiply(modifier.multiplier)
RECURSIVE MultiplyEach(_, _)
MultiplyEach(price, modifiers) ==
  IF modifiers = <<>> THEN price
  ELSE MultiplyEach(MoneyMultiply(price, Head(modifiers).multiplier),
                    Tail(modifiers))

applicableModifiers(context) ==
  SelectSeq(context.seasonalModifiers,
            LAMBDA modifier : isModifierApplicable(modifier, context))

SeasonalPricingStrategy(basePrice, context) ==
  MultiplyEach(HappyHourPricingStrategy(basePrice, context),
               applicableModifiers(context))

\* the inputs of calculatePrice; applicableToSizes is <<>> when absent and
\* <<sizes>> when present
BasePrices == {MoneyCreate(Dec(1699, 2), "USD"), MoneyCreate(Dec(1299, 2), "EUR")}

SeasonalModifier ==
  [multiplier : {Dec(11, 1), Dec(9, 1)},
   validFrom : {1, 2}, validTo : {2},
   applicableToSizes : {<<>>, <<{"LARGE"}>>}]

ModifierLists == UNION {[1..n -> SeasonalModifier] : n \in 0..MaxModifiers}

PricingContext ==
  [size : PizzaSize, customerType : {"REGULAR", "VIP", "STAFF"},
   orderTime : {1, 2}, isHappyHour : BOOLEAN,
   seasonalModifiers : ModifierLists]

InitPricing ==
  /\ NoOrder
  /\ NoApp
  /\ money = Idle
  /\ \E basePrice \in BasePrices, context \in PricingContext :
       pricing = [basePrice |-> basePrice, context |-> context,
                  call |-> Returned("none", NoMoney)]
  /\ user = Idle

\* one call of calculatePrice on the inputs drawn
Priced(op, price) ==
  /\ pricing.call.op = "none"
  /\ pricing' = [pricing EXCEPT !.call = Returned(op, price)]

BaseCalculatePrice ==
  Priced("Base", BasePricingStrategy(pricing.basePrice, pricing.context))

VIPCalculatePrice ==
  Priced("VIP", VIPPricingStrategy(pricing.basePrice, pricing.context))

HappyHourCalculatePrice ==
  Priced("HappyHour", HappyHourPricingStrategy(pricing.basePrice, pricing.context))

SeasonalCalculatePrice ==
  Priced("Seasonal", SeasonalPricingStrategy(pricing.basePrice, pricing.context))

NextPricing ==
  \/ BaseCalculatePrice /\ UNCHANGED <<orderVars, money, user, appVars>>
  \/ VIPCalculatePrice /\ UNCHANGED <<orderVars, money, user, appVars>>
  \/ HappyHourCalculatePrice /\ UNCHANGED <<orderVars, money, user, appVars>>
  \/ SeasonalCalculatePrice /\ UNCHANGED <<orderVars, money, user, appVars>>

SpecPricing == InitPricing /\ [][NextPricing]_vars

(***************************************************************************)
(* user.ts: the User aggregate                                             *)
(***************************************************************************)
UserStatus == {"ACTIVE", "SUSPENDED", "DELETED"}

\* new User(...): _status = 'ACTIVE', _emailVerified = false, no login yet;
\* deleted records that delete() has been called on this object
NewUser ==
  [status |-> "ACTIVE", emailVerified |-> FALSE, lastLoginAt |-> <<>>,
   domainEvents |-> <<>>, deleted |-> FALSE,
   call |-> Returned("none", "none")]

\* User.create with valid props
UserCreate ==
  [NewUser EXCEPT !.domainEvents = <<"UserCreatedEvent">>,
                  !.call = Returned("create", "Ok")]

\* User.reconstitute(data): the stored state, no event
reconstitute(data) ==
  [NewUser EXCEPT !.status = data.status,
                  !.emailVerified = data.emailVerified,
                  !.lastLoginAt = data.lastLoginAt,
                  !.call = Returned("reconstitute", "User")]

UserData ==
  [status : UserStatus, emailVerified : BOOLEAN, lastLoginAt : {<<>>, <<0>>}]

InitUser ==
  /\ NoOrder
  /\ NoApp
  /\ money = Idle
  /\ pricing = Idle
  /\ user \in {UserCreate} \cup {reconstitute(data) : data \in UserData}

recordLogin ==
  user' = [user EXCEPT !.lastLoginAt = <<now>>,
                       !.call = Returned("recordLogin", "void")]

verifyEmail_always ==
  user' = [user EXCEPT
             !.emailVerified = TRUE,
             !.domainEvents = Append(user.domainEvents, "UserActivatedEvent"),
             !.call = Returned("verifyEmail", "void")]

verifyEmail ==
  IF ~user.emailVerified
  THEN user' = [user EXCEPT
                  !.emailVerified = TRUE,
                  !.domainEvents = Append(user.domainEvents, "UserActivatedEvent"),
                  !.call = Returned("verifyEmail", "void")]
  ELSE user' = [user EXCEPT !.call = Returned("verifyEmail", "void")]

suspendErr_never(s) == FALSE

suspendErr(s) == s = "DELETED"

activateErr_never(s) == FALSE

activateErr(s) == s = "DELETED"

suspend ==
  IF suspendErr(user.status)
  THEN user' = [user EXCEPT !.call = Returned("suspend", "ValidationError")]
  ELSE user' = [user EXCEPT !.status = "SUSPENDED",
                            !.call = Returned("suspend", "Ok")]

activate ==
  IF activateErr(user.status)
  THEN user' = [user EXCEPT !.call = Returned("activate", "ValidationError")]
  ELSE user' = [user EXCEPT !.status = "ACTIVE",
                            !.call = Returned("activate", "Ok")]

delete ==
  user' = [user EXCEPT !.status = "DELETED", !.deleted = TRUE,
                       !.call = Returned("delete", "void")]

isActive ==
  user' = [user EXCEPT
             !.call = Returned("isActive",
                               IF user.status = "ACTIVE" THEN "true" ELSE "false")]

NextUser ==
  \/ recordLogin /\ UNCHANGED <<orderVars, money, pricing, appVars>>
  \/ verifyEmail /\ UNCHANGED <<orderVars, money, pricing, appVars>>
  \/ suspend /\ UNCHANGED <<orderVars, money, pricing, appVars>>
  \/ activate /\ UNCHANGED <<orderVars, money, pricing, appVars>>
  \/ delete /\ UNCHANGED <<orderVars, money, pricing, appVars>>
  \/ isActive /\ UNCHANGED <<orderVars, money, pricing, appVars>>

SpecUser == InitUser /\ [][NextUser]_vars

(***************************************************************************)
(* Users as the application layer sees them: validation of the input of    *)
(* User.create, the users table and DrizzleUserRepository                  *)
(***************************************************************************)
MaxCallers == 2    \* concurrent calls of RegisterUserUseCase.execute

Digits == {"0", "1", "2", "3", "4", "5", "6", "7", "8", "9"}
Letters == {"a", "b", "c", "d", "o", "p", "r", "s", "w", "A", "D", "J"}
WhiteSpace == {" "}

\* String.prototype.toLowerCase on a sequence of characters
toLowerCase(s) ==
  [i \in 1..Len(s) |->
     IF s[i] = "A" THEN "a"
     ELSE IF s[i] = "D" THEN "d"
     ELSE IF s[i] = "J" THEN "j"
     ELSE s[i]]

\* /^[^\s@]+@[^\s@]+\.[^\s@]+$/
isValidEmail(email) ==
  /\ \A i \in 1..Len(email) : email[i] \notin WhiteSpace
  /\ Cardinality({i \in 1..Len(email) : email[i] = "@"}) = 1
  /\ \E i \in 2..Len(email) :
       /\ email[i] = "@"
       /\ \E j \in (i + 2)..(Len(email) - 1) : email[j] = "."

isValidPassword(password) ==
  /\ Len(password) >= 8
  /\ \E i \in 1..Len(password) : password[i] \in Digits
  /\ \E i \in 1..Len(password) : password[i] \in Letters

\* /^\+?[\d\s\-\(\)]{10,15}$/
PhoneBody(s) ==
  /\ Len(s) >= 10
  /\ Len(s) <= 15
  /\ \A i \in 1..Len(s) : s[i] \in Digits \cup WhiteSpace \cup {"-", "(", ")"}

isValidPhone(phone) ==
  \/ PhoneBody(phone)
  \/ phone # <<>> /\ Head(phone) = "+" /\ PhoneBody(Tail(phone))

\* validateUserProps: "ok" or the message of the ValidationError returned
validateUserProps(p) ==
  IF ~isValidEmail(p.email) THEN "Invalid email format"
  ELSE IF ~isValidPassword(p.password)
    THEN "Password must be at least 8 characters long and contain numbers and letters"
  ELSE IF trim(p.firstName) = <<>> THEN "First name is required"
  ELSE IF trim(p.lastName) = <<>> THEN "Last name is required"
  ELSE IF ~isValidPhone(p.phone) THEN "Invalid phone number format"
  ELSE "ok"

\* bcrypt.hash(password, 12): a hash that bcrypt.compare matches with the
\* password it was made of and with no other
hashPassword(password) == [of |-> password]

verifyPassword(u, password) == u.passwordHash.of = password

\* new User(id, email, passwordHash, ...): ACTIVE, not verified, no login
Account(id, email, passwordHash) ==
  [id |-> id, email |-> email, passwordHash |-> passwordHash,
   status |-> "ACTIVE", emailVerified |-> FALSE, lastLoginAt |-> <<>>,
   domainEvents |-> <<>>]

\* User.create(p) for props p that pass validateUserProps
createUser(p) ==
  [Account(p.id, trim(toLowerCase(p.email)), hashPassword(p.password))
     EXCEPT !.domainEvents = <<"UserCreatedEvent">>]

\* DrizzleUserRepository.fromDomain: the row written for a user
fromDomain(u) ==
  [id |-> u.id, email |-> u.email, passwordHash |-> u.passwordHash,
   status |-> u.status, emailVerified |-> u.emailVerified,
   lastLoginAt |-> u.lastLoginAt]

\* DrizzleUserRepository.toDomain: User.reconstitute of a row
toDomain(row) ==
  [Account(row.id, row.email, row.passwordHash)
     EXCEPT !.status = row.status,
            !.emailVerified = row.emailVerified,
            !.lastLoginAt = row.lastLoginAt]

\* the columns that ON CONFLICT (id) DO UPDATE SET assigns
onConflictDoUpdate(old, dbUser) ==
  [old EXCEPT !.status = dbUser.status,
              !.emailVerified = dbUser.emailVerified,
              !.lastLoginAt = dbUser.lastLoginAt]

\* insert(users).values(dbUser).onConflictDoUpdate({target: users.id}) on a
\* table with primary key id and a unique email: the table afterwards, the
\* row returned and whether the statement raised an error
Written(rows, row) == [rows |-> rows, row |-> <<row>>, error |-> "none"]

Raised(rows, error) == [rows |-> rows, row |-> <<>>, error |-> error]

insert(rows, dbUser) ==
  IF \E r \in rows : r.id = dbUser.id
  THEN LET old == CHOOSE r \in rows : r.id = dbUser.id
       IN Written((rows \ {old}) \cup {onConflictDoUpdate(old, dbUser)},
                  onConflictDoUpdate(old, dbUser))
  ELSE IF \E r \in rows : r.email = dbUser.email
  THEN Raised(rows, "duplicate key value violates unique constraint")
  ELSE Written(rows \cup {dbUser}, dbUser)

\* the statement when the database cannot be reached
statement(rows, dbUser, reachable) ==
  IF reachable THEN insert(rows, dbUser) ELSE Raised(rows, "connection refused")

\* DrizzleUserRepository.existsByEmail: false when the query throws
existsByEmail(rows, email, reachable) ==
  reachable /\ \E r \in rows : r.email = toLowerCase(email)

\* Result values
Ok(value) == [ok |-> TRUE, value |-> value]

Err(name, message) == [ok |-> FALSE, name |-> name, message |-> message]

(***************************************************************************)
(* DomainEventDispatcher                                                   *)
(***************************************************************************)
\* this.handlers.get(eventType) || []
handlersFor(handlers, eventType) ==
  IF eventType \in DOMAIN handlers THEN handlers[eventType] ELSE <<>>

\* register(eventType, handler): push on the list of the type
registerHandler(handlers, eventType, handler) ==
  [t \in DOMAIN handlers \cup {eventType} |->
     IF t = eventType THEN Append(handlersFor(handlers, t), handler)
     ELSE handlers[t]]

\* a handler: its name and whether the promise of its handle() rejects
Handler(name, rejects) == [name |-> name, rejects |-> rejects]

\* the handlers registered when the module is loaded; they only log
defaultHandlers ==
  registerHandler(
    registerHandler(<<>>, "UserCreatedEvent",
                    Handler("UserCreatedEventHandler", FALSE)),
    "OrderStatusChangedEvent",
    Handler("OrderStatusChangedEventHandler", FALSE))

\* handler.handle(event): how the promise it returns settles
handle(handler, event) == IF handler.rejects THEN "rejected" ELSE "resolved"

\* promise.catch(error => { console.error(...) }): a rejection is logged and
\* the promise returned resolves
catch_rethrow(settled) == settled

catch(settled) == IF settled = "rejected" THEN "resolved" ELSE settled

\* handlers.map(handler => handler.handle(event).catch(...)): the calls of
\* handle made for one event, in the order of registration
handleEach(hs, event) ==
  [i \in 1..Len(hs) |->
     [handler |-> hs[i].name, event |-> event,
      outcome |-> handle(hs[i], event),
      settled |-> catch(handle(hs[i], event))]]

\* await Promise.all(promises) throws when one of the promises rejects
PromiseAllThrows(calls) ==
  \E i \in 1..Len(calls) : calls[i].settled = "rejected"

\* the rest of the loop of dispatch after the calls made for one event
Continue(calls, rest) ==
  IF PromiseAllThrows(calls) THEN [calls |-> calls, threw |-> TRUE]
  ELSE [calls |-> calls \o rest.calls, threw |-> rest.threw]

\* dispatch(events): the calls of handle it makes, in the order made, and
\* whether it throws
RECURSIVE dispatch(_, _)
dispatch(handlers, events) ==
  IF events = <<>> THEN [calls |-> <<>>, threw |-> FALSE]
  ELSE Continue(handleEach(handlersFor(handlers, Head(events)), Head(events)),
                dispatch(handlers, Tail(events)))

\* lines 76-85 of save: the events are dispatched when there are any, and
\* the saved row is returned unless dispatch threw
Dispatched(handlers, events, savedUser) ==
  [calls |-> dispatch(handlers, events).calls,
   result |-> IF dispatch(handlers, events).threw
              THEN Err("Error", "handler")
              ELSE Ok(toDomain(savedUser))]

(***************************************************************************)
(* RegisterUserUseCase.execute, called concurrently                        *)
(***************************************************************************)
Callers == 1..MaxCallers

EmailLower == <<"a", "@", "b", ".", "c">>
EmailUpper == <<"A", "@", "b", ".", "c">>
GoodPassword == <<"p", "a", "s", "s", "w", "o", "r", "d", "1">>

ValidRequest ==
  [email |-> EmailLower, password |-> GoodPassword,
   firstName |-> <<"J">>, lastName |-> <<"D">>,
   phone |-> <<"+", "1", "2", "3", "4", "5", "6", "7", "8", "9", "0">>]

RegisterUserRequest ==
  {ValidRequest,
   [ValidRequest EXCEPT !.email = EmailUpper],
   [ValidRequest EXCEPT !.email = <<"a", "@", "b">>],
   [ValidRequest EXCEPT !.password = <<"p", "a", "s", "s", "w", "o", "r", "d">>],
   [ValidRequest EXCEPT !.firstName = <<" ">>],
   [ValidRequest EXCEPT !.lastName = <<>>],
   [ValidRequest EXCEPT !.phone = <<"1", "2", "3">>]}

\* the row of a user registered earlier, with an id no call draws
StoredRow == fromDomain(Account(0, EmailLower, hashPassword(GoodPassword)))

\* a call that has not started: its next step is the existsByEmail query
Execute(request) ==
  [pc |-> "existsByEmail", request |-> request, existingUser |-> <<>>,
   user |-> <<>>, saves |-> 0, result |-> <<>>]

InitRegister ==
  /\ NoOrder
  /\ money = Idle
  /\ pricing = Idle
  /\ user = Idle
  /\ auth = Idle
  /\ memo = Idle
  /\ repo = Idle
  /\ mw = Idle
  /\ register \in [rows : {{}, {StoredRow}},
                   handled : {<<>>},
                   exec : [Callers -> {Execute(r) : r \in RegisterUserRequest}]]

Finished(e, result) == [e EXCEPT !.pc = "done", !.result = <<result>>]

\* line 25: if (existingUser)
alreadyExists_never(existingUser) == FALSE

alreadyExists(existingUser) == existingUser

\* what execute does with the answer of existsByEmail (lines 24-27)
Checked(e, existingUser) ==
  IF alreadyExists(existingUser)
  THEN [Finished(e, Err("AlreadyExistsError", e.request.email))
          EXCEPT !.existingUser = <<existingUser>>]
  ELSE [e EXCEPT !.pc = "create", !.existingUser = <<existingUser>>]

\* lines 24-27: the query, and the early return when the email is taken
RegisterExistsByEmail(c) ==
  /\ register.exec[c].pc = "existsByEmail"
  /\ \E reachable \in BOOLEAN :
       register' =
         [register EXCEPT !.exec[c] =
            Checked(@, existsByEmail(register.rows, @.request.email, reachable))]

\* lines 30-44: User.create with a fresh id, and the early return on its error
RegisterCreate(c) ==
  /\ register.exec[c].pc = "create"
  /\ register' =
       [register EXCEPT !.exec[c] =
          IF validateUserProps(@.request) # "ok"
          THEN Finished(@, Err("ValidationError", validateUserProps(@.request)))
          ELSE [pc |-> "save", request |-> @.request,
                existingUser |-> @.existingUser,
                user |-> <<createUser([id |-> c,
                                       email |-> @.request.email,
                                       password |-> @.request.password])>>,
                saves |-> @.saves, result |-> @.result]]

\* what DrizzleUserRepository.save(u) leaves, given what its statement did:
\* the user's events are taken, cleared and dispatched once the row is written
Saved(r, c, w) ==
  IF w.error = "none"
  THEN [rows |-> w.rows,
        handled |->
          r.handled \o Dispatched(defaultHandlers,
                                  r.exec[c].user[1].domainEvents,
                                  w.row[1]).calls,
        exec |-> [r.exec EXCEPT ![c] =
                    [Finished(@, Dispatched(defaultHandlers,
                                            r.exec[c].user[1].domainEvents,
                                            w.row[1]).result)
                       EXCEPT !.saves = @ + 1,
                              !.user[1].domainEvents = <<>>]]]
  ELSE [r EXCEPT !.exec[c] =
          [Finished(@, Err("Error", w.error)) EXCEPT !.saves = @ + 1]]

\* lines 47-52: repository.save(user) and the result of execute
RegisterSave(c) ==
  /\ register.exec[c].pc = "save"
  /\ \E reachable \in BOOLEAN :
       register' =
         Saved(register, c,
               statement(register.rows,
                         fromDomain(register.exec[c].user[1]), reachable))

NextRegister ==
  \/ \E c \in Callers : RegisterExistsByEmail(c)
        /\ UNCHANGED <<orderVars, money, pricing, user, auth, memo, repo, mw>>
  \/ \E c \in Callers : RegisterCreate(c)
        /\ UNCHANGED <<orderVars, money, pricing, user, auth, memo, repo, mw>>
  \/ \E c \in Callers : RegisterSave(c)
        /\ UNCHANGED <<orderVars, money, pricing, user, auth, memo, repo, mw>>

SpecRegister == InitRegister /\ [][NextRegister]_vars

(***************************************************************************)
(* memoize                                                                 *)
(***************************************************************************)
MaxCalls == 3      \* calls made of one memoized function

\* Number.prototype.toString of a natural number, as a sequence of characters
RECURSIVE toString(_)
toString(n) ==
  IF n < 10 THEN <<<<"0", "1", "2", "3", "4", "5", "6", "7", "8", "9">>[n + 1]>>
  ELSE toString(n \div 10) \o toString(n % 10)

\* the argument lists: one object {id, name}
MemoArgs == [id : 1..2, name : {"John", "Jane"}]

\* JSON.stringify([{id, name}])
stringify(args) ==
  <<"[{\"id\":">> \o toString(args.id) \o <<",\"name\":\"", args.name, "\"}]">>

\* the key functions handed to memoize: none, or obj => obj.id.toString()
KeyFunctions == {"none", "id"}

\* const key = getKey ? getKey(...args) : JSON.stringify(args)
cacheKey(getKey, args) ==
  IF getKey = "id" THEN toString(args.id) ELSE stringify(args)

\* the functions wrapped: one that formats its argument, one that returns the
\* number of times it has been invoked, one that throws for the name Jane
Functions == {"format", "callCount", "throwing"}

\* fn(...args) on its n-th invocation
fn(f, args, n) ==
  IF f = "format" THEN [threw |-> FALSE, value |-> toString(args.id) \o <<"-", args.name>>]
  ELSE IF f = "callCount" THEN [threw |-> FALSE, value |-> toString(n)]
  ELSE IF args.name = "Jane" THEN [threw |-> TRUE, value |-> <<>>]
  ELSE [threw |-> FALSE, value |-> toString(args.id)]

InitMemo ==
  /\ NoOrder
  /\ money = Idle
  /\ pricing = Idle
  /\ user = Idle
  /\ register = Idle
  /\ auth = Idle
  /\ repo = Idle
  /\ mw = Idle
  /\ memo \in [fn : Functions, getKey : KeyFunctions, cache : {<<>>},
               invoked : {<<>>}, calls : {<<>>}]

\* cache.has(key)
has_never(cache, key) == FALSE

has(cache, key) == key \in DOMAIN cache

\* cache.set(key, result)
set(cache, key, result) ==
  [k \in DOMAIN cache \cup {key} |-> IF k = key THEN result ELSE cache[k]]

\* a call of the memoized function that finds its key in the cache
Hit(m, args, key) ==
  [m EXCEPT !.calls = Append(@, [args |-> args, key |-> key, threw |-> FALSE,
                                 value |-> m.cache[key]])]

\* a call that invokes fn: its result is cached unless fn throws
Miss(m, args, key, result) ==
  [m EXCEPT !.invoked = Append(@, args),
            !.cache = IF result.threw THEN @ ELSE set(@, key, result.value),
            !.calls = Append(@, [args |-> args, key |-> key,
                                 threw |-> result.threw,
                                 value |-> result.value])]

MemoizedCall(args) ==
  /\ Len(memo.calls) < MaxCalls
  /\ memo' =
       IF has(memo.cache, cacheKey(memo.getKey, args))
       THEN Hit(memo, args, cacheKey(memo.getKey, args))
       ELSE Miss(memo, args, cacheKey(memo.getKey, args),
                 fn(memo.fn, args, Len(memo.invoked) + 1))

NextMemo ==
  \E args \in MemoArgs :
    MemoizedCall(args)
      /\ UNCHANGED <<orderVars, money, pricing, user, register, auth, repo, mw>>

SpecMemo == InitMemo /\ [][NextMemo]_vars

(***************************************************************************)
(* AuthenticateUserUseCase.execute                                         *)
(***************************************************************************)
MaxLogins == 2     \* calls of AuthenticateUserUseCase.execute

EmailOther == <<"d", "@", "b", ".", "c">>
WrongPassword == <<"w", "r", "o", "n", "g", "p", "a", "s", "s", "1">>

AuthenticateUserRequest ==
  [email : {EmailLower, EmailUpper, EmailOther},
   password : {GoodPassword, WrongPassword}]

\* DrizzleUserRepository.findByEmail: NotFoundError when no row matches or
\* the query throws
findByEmail(rows, email, reachable) ==
  IF reachable /\ \E r \in rows : r.email = toLowerCase(email)
  THEN Ok(toDomain(CHOOSE r \in rows : r.email = toLowerCase(email)))
  ELSE Err("NotFoundError", "User not found")

\* the access and the refresh token signed for a user
Tokens(u) ==
  [accessToken |-> [userId |-> u.id, email |-> u.email],
   refreshToken |-> [userId |-> u.id, type |-> "refresh"]]

\* lines 51-63: recordLogin, save (its result is not looked at), the tokens
LoggedIn(rows, u, reachable) ==
  [rows |-> statement(rows, fromDomain(u), reachable).rows,
   result |-> Ok([user |-> u] @@ Tokens(u))]

Refused(rows, message) ==
  [rows |-> rows, result |-> Err("ValidationError", message)]

\* lines 34-49: what execute does with the answer of findByEmail
Verified(rows, found, password, t, reachable) ==
  IF ~found.ok THEN Refused(rows, "Invalid email or password")
  ELSE IF found.value.status # "ACTIVE"
    THEN Refused(rows, "Account is suspended or deleted")
  ELSE IF ~verifyPassword(found.value, password)
    THEN Refused(rows, "Invalid email or password")
  ELSE LoggedIn(rows, [found.value EXCEPT !.lastLoginAt = <<t>>], reachable)

InitAuth ==
  /\ NoOrder
  /\ money = Idle
  /\ pricing = Idle
  /\ user = Idle
  /\ register = Idle
  /\ memo = Idle
  /\ repo = Idle
  /\ mw = Idle
  /\ auth \in [rows : {{[StoredRow EXCEPT !.status = s]} : s \in UserStatus},
               calls : {<<>>}]

Authenticated(a, request, done) ==
  [rows |-> done.rows,
   calls |-> Append(a.calls, [request |-> request, result |-> done.result])]

AuthenticateExecute(request) ==
  /\ Len(auth.calls) < MaxLogins
  /\ \E reachable \in BOOLEAN, writable \in BOOLEAN :
       auth' = Authenticated(auth, request,
                 Verified(auth.rows,
                          findByEmail(auth.rows, request.email, reachable),
                          request.password, now, writable))

NextAuth ==
  \E request \in AuthenticateUserRequest :
    AuthenticateExecute(request)
      /\ UNCHANGED <<orderVars, money, pricing, user, register, memo, repo, mw>>

SpecAuth == InitAuth /\ [][NextAuth]_vars

(***************************************************************************)
(* middleware                                                              *)
(* A path is a sequence of pieces of the path string, cut so that every    *)
(* prefix the code compares with is a whole number of pieces.              *)
(***************************************************************************)
publicPaths ==
  <<<<"/api/auth/login">>, <<"/api/auth/register">>, <<"/api/menu/pizzas">>,
    <<"/">>, <<"/menu">>, <<"/about">>>>

adminPaths == <<<<"/api/admin">>, <<"/api/menu/pizzas">>>>

\* String.prototype.startsWith
startsWith(s, prefix) ==
  Len(prefix) <= Len(s) /\ SubSeq(s, 1, Len(prefix)) = prefix

\* String.prototype.endsWith
endsWith(s, suffix) ==
  Len(suffix) <= Len(s) /\ SubSeq(s, Len(s) - Len(suffix) + 1, Len(s)) = suffix

isPublicPath(pathname) ==
  \E i \in 1..Len(publicPaths) :
    \/ pathname = publicPaths[i]
    \/ /\ endsWith(publicPaths[i], <<"*">>)
       /\ startsWith(pathname,
                     SubSeq(publicPaths[i], 1, Len(publicPaths[i]) - 1))

isAdminPath_exact(pathname) ==
  \E i \in 1..Len(adminPaths) : pathname = adminPaths[i]

isAdminPath(pathname) ==
  \E i \in 1..Len(adminPaths) : startsWith(pathname, adminPaths[i])

\* the paths requested
Pathnames ==
  {<<"/">>, <<"/menu">>, <<"/api/auth/login">>, <<"/api/menu/pizzas">>,
   <<"/api/menu/pizzas", "/1">>, <<"/api/admin">>, <<"/api/admin", "/users">>,
   <<"/api/orders">>, <<"/dashboard">>, <<"/menu", "/1">>}

\* a cookie value: whether jwtVerify accepts it (signature and expiry) and
\* the claims of its payload; the tokens of AuthenticateUserUseCase are an
\* access token with a role and a refresh token with type 'refresh'
JWT ==
  [verifies : BOOLEAN, role : {"CUSTOMER", "ADMIN"}, type : {"undefined"}]
    \cup [verifies : BOOLEAN, role : {"undefined"}, type : {"refresh"}]

\* request.cookies.get(name)?.value: <<>> when the cookie is missing
Cookies == {<<>>} \cup {<<t>> : t \in JWT}

NextRequest ==
  [pathname : Pathnames, accessToken : Cookies, refreshToken : Cookies]

\* NextResponse.next(): the request goes on to its handler
Forward(headers, cookies) ==
  [kind |-> "next", status |-> 200, location |-> <<>>,
   headers |-> headers, cookies |-> cookies]

redirectToLogin(request) ==
  [kind |-> "redirect", status |-> 307, location |-> <<"/login">>,
   headers |-> <<>>, cookies |-> <<>>]

Forbidden ==
  [kind |-> "json", status |-> 403, location |-> <<>>,
   headers |-> <<>>, cookies |-> <<>>]

\* refreshAccessToken: null (<<>>) when the token does not verify or is not a
\* refresh token; otherwise line 133 evaluates jose.SignJWT, jose is not
\* imported (line 2 imports jwtVerify only), the ReferenceError is caught at
\* line 144 and the function returns null as well
refreshAccessToken(refreshToken) ==
  IF ~refreshToken.verifies THEN <<>>
  ELSE IF refreshToken.type # "refresh" THEN <<>>
  ELSE <<>>

\* lines 74-99: the access token did not verify
Refresh(request) ==
  IF request.refreshToken # <<>>
       /\ refreshAccessToken(request.refreshToken[1]) # <<>>
  THEN Forward(<<>>, refreshAccessToken(request.refreshToken[1]))
  ELSE redirectToLogin(request)

\* lines 53-73: the access token verified
Authorize(request, payload) ==
  IF isAdminPath(request.pathname) /\ payload.role # "ADMIN"
  THEN Forbidden
  ELSE Forward(<<payload.role>>, <<>>)

middleware(request) ==
  IF isPublicPath(request.pathname) THEN Forward(<<>>, <<>>)
  ELSE IF request.accessToken = <<>> THEN redirectToLogin(request)
  ELSE IF request.accessToken[1].verifies
    THEN Authorize(request, request.accessToken[1])
  ELSE Refresh(request)

InitMiddleware ==
  /\ NoOrder
  /\ money = Idle
  /\ pricing = Idle
  /\ user = Idle
  /\ register = Idle
  /\ auth = Idle
  /\ memo = Idle
  /\ repo = Idle
  /\ mw \in [request : NextRequest, response : {<<>>}]

Middleware ==
  /\ mw.response = <<>>
  /\ mw' = [mw EXCEPT !.response = <<middleware(mw.request)>>]

NextMiddleware ==
  Middleware
    /\ UNCHANGED <<orderVars, money, pricing, user, register, auth, memo, repo>>

SpecMiddleware == InitMiddleware /\ [][NextMiddleware]_vars

(***************************************************************************)
(* DrizzleUserRepository.save and findById on one user aggregate           *)
(***************************************************************************)
MaxHandlers == 2   \* handlers registered on top of the default ones

NewPassword == <<"n", "e", "w", "p", "a", "s", "s", "2">>

\* the handlers registered by the application, in the order registered
HandlerNames == <<"first", "second", "third">>

\* the result of a call as the call record holds it
Named(result) == IF result.ok THEN "Ok" ELSE result.name

\* DrizzleUserRepository.findById: NotFoundError when no row has the id or
\* the query throws
findById(rows, id, reachable) ==
  IF reachable /\ \E r \in rows : r.id = id
  THEN Ok(toDomain(CHOOSE r \in rows : r.id = id))
  ELSE Err("NotFoundError", "User not found")

\* the user a call of User.create with the valid request gives
CreatedUser ==
  createUser([id |-> 1, email |-> EmailLower, password |-> GoodPassword])

\* a user in hand and the table: a new user and an empty table, a new user
\* while another id holds its email, or a user loaded from its row
InitRepo ==
  /\ NoOrder
  /\ money = Idle
  /\ pricing = Idle
  /\ user = Idle
  /\ register = Idle
  /\ auth = Idle
  /\ memo = Idle
  /\ mw = Idle
  /\ repo \in [user : {CreatedUser},
               rows : {{}, {StoredRow}},
               handlers : {defaultHandlers}, registered : {0},
               handled : {<<>>}, pc : {"idle"}, events : {<<>>},
               savedUser : {<<>>}, returned : {<<>>},
               call : {Returned("create", "Ok")}]
        \cup [user : {toDomain(fromDomain(CreatedUser))},
              rows : {{fromDomain(CreatedUser)}},
              handlers : {defaultHandlers}, registered : {0},
              handled : {<<>>}, pc : {"idle"}, events : {<<>>},
              savedUser : {<<>>}, returned : {<<>>},
              call : {Returned("findById", "Ok")}]

\* dispatcher.register(eventType, handler)
RepoRegister(eventType, rejects) ==
  /\ repo.pc = "idle"
  /\ repo.registered < MaxHandlers
  /\ repo' = [repo EXCEPT
                !.handlers = registerHandler(@, eventType,
                               Handler(HandlerNames[repo.registered + 1],
                                       rejects)),
                !.registered = @ + 1,
                !.returned = <<>>,
                !.call = Returned("register", "void")]

\* user.verifyEmail()
RepoVerifyEmail ==
  /\ repo.pc = "idle"
  /\ repo' = [repo EXCEPT
                !.user = IF @.emailVerified THEN @
                         ELSE [@ EXCEPT !.emailVerified = TRUE,
                                        !.domainEvents =
                                          Append(@, "UserActivatedEvent")],
                !.returned = <<>>,
                !.call = Returned("verifyEmail", "void")]

\* user.changePassword(newPassword)
RepoChangePassword(newPassword) ==
  /\ repo.pc = "idle"
  /\ repo' = IF ~isValidPassword(newPassword)
             THEN [repo EXCEPT !.returned = <<>>,
                               !.call = Returned("changePassword",
                                                 "ValidationError")]
             ELSE [repo EXCEPT !.user.passwordHash = hashPassword(newPassword),
                               !.returned = <<>>,
                               !.call = Returned("changePassword", "Ok")]

\* user.suspend()
RepoSuspend ==
  /\ repo.pc = "idle"
  /\ repo' = IF suspendErr(repo.user.status)
             THEN [repo EXCEPT !.returned = <<>>,
                               !.call = Returned("suspend", "ValidationError")]
             ELSE [repo EXCEPT !.user.status = "SUSPENDED",
                               !.returned = <<>>,
                               !.call = Returned("suspend", "Ok")]

\* user.recordLogin()
RepoRecordLogin ==
  /\ repo.pc = "idle"
  /\ repo' = [repo EXCEPT !.user.lastLoginAt = <<now>>,
                          !.returned = <<>>,
                          !.call = Returned("recordLogin", "void")]

\* save, lines 55-77: the statement; when it throws save returns the error,
\* otherwise the pending events are taken and cleared
Inserted(r, w) ==
  IF w.error # "none"
  THEN [r EXCEPT !.returned = <<Err("Error", w.error)>>,
                 !.call = Returned("save", "Error")]
  ELSE [r EXCEPT !.rows = w.rows,
                 !.savedUser = w.row,
                 !.events = r.user.domainEvents,
                 !.user.domainEvents = <<>>,
                 !.pc = "dispatch",
                 !.returned = <<>>,
                 !.call = Returned("save", "pending")]

RepoSaveInsert ==
  /\ repo.pc = "idle"
  /\ \E reachable \in BOOLEAN :
       repo' = Inserted(repo, statement(repo.rows, fromDomain(repo.user),
                                        reachable))

\* save, lines 78-85: the dispatch of the events taken and the result
RepoSaveDispatch ==
  /\ repo.pc = "dispatch"
  /\ repo' = [repo EXCEPT
                !.handled = @ \o Dispatched(repo.handlers, repo.events,
                                            repo.savedUser[1]).calls,
                !.pc = "idle",
                !.events = <<>>,
                !.returned = <<Dispatched(repo.handlers, repo.events,
                                          repo.savedUser[1]).result>>,
                !.call = Returned("save",
                                  Named(Dispatched(repo.handlers, repo.events,
                                                   repo.savedUser[1]).result))]

\* repository.findById(user.id)
RepoFindById ==
  /\ repo.pc = "idle"
  /\ \E reachable \in BOOLEAN :
       repo' = [repo EXCEPT
                  !.returned = <<findById(repo.rows, repo.user.id, reachable)>>,
                  !.call = Returned("findById",
                                    Named(findById(repo.rows, repo.user.id,
                                                   reachable)))]

NextRepo ==
  \/ \E eventType \in {"UserCreatedEvent", "UserActivatedEvent"},
        rejects \in BOOLEAN :
       RepoRegister(eventType, rejects)
         /\ UNCHANGED <<orderVars, money, pricing, user, register, auth, memo, mw>>
  \/ RepoVerifyEmail
       /\ UNCHANGED <<orderVars, money, pricing, user, register, auth, memo, mw>>
  \/ \E newPassword \in {NewPassword, <<"n", "e", "w">>} :
       RepoChangePassword(newPassword)
         /\ UNCHANGED <<orderVars, money, pricing, user, register, auth, memo, mw>>
  \/ RepoSuspend
       /\ UNCHANGED <<orderVars, money, pricing, user, register, auth, memo, mw>>
  \/ RepoRecordLogin
       /\ UNCHANGED <<orderVars, money, pricing, user, register, auth, memo, mw>>
  \/ RepoSaveInsert
       /\ UNCHANGED <<orderVars, money, pricing, user, register, auth, memo, mw>>
  \/ RepoSaveDispatch
       /\ UNCHANGED <<orderVars, money, pricing, user, register, auth, memo, mw>>
  \/ RepoFindById
       /\ UNCHANGED <<orderVars, money, pricing, user, register, auth, memo, mw>>

SpecRepo == InitRepo /\ [][NextRepo]_vars

(***************************************************************************)
(* Properties of the order life cycle                                      *)
(***************************************************************************)
TransitionMethods == {"confirm", "startPreparation", "markAsReady",
                      "startDelivery", "markAsDelivered", "cancel"}

BRV == "BusinessRuleViolationError"

\* the documented precondition of a transition method, in the current state
PreconditionMet(op) ==
  CASE op = "confirm" -> status = "PENDING"
    [] op = "startPreparation" -> status = "CONFIRMED" /\ paymentStatus = "PAID"
    [] op = "markAsReady" -> status = "PREPARING"
    [] op = "startDelivery" -> status = "READY" /\ deliveryType = "DELIVERY"
    [] op = "markAsDelivered" ->
         \/ deliveryType = "PICKUP" /\ status = "READY"
         \/ deliveryType = "DELIVERY" /\ status = "OUT_FOR_DELIVERY"
    [] op = "cancel" -> status \notin {"DELIVERED", "OUT_FOR_DELIVERY"}
    [] OTHER -> TRUE

\* C1: a transition method called when its precondition is unmet returns a
\* BusinessRuleViolationError and leaves the status unchanged.
C1_UnmetPreconditionFails ==
  [][(call'.op \in TransitionMethods /\ ~PreconditionMet(call'.op))
       => (call'.result = BRV /\ status' = status)]_orderVars

C1_Witness ==
  /\ call = Returned("markAsReady", BRV)
  /\ status = "CONFIRMED"

\* the edges of the documented state machine
Edge(s, t, dt) ==
  \/ <<s, t>> \in {<<"PENDING", "CONFIRMED">>, <<"CONFIRMED", "PREPARING">>,
                   <<"PREPARING", "READY">>,
                   <<"OUT_FOR_DELIVERY", "DELIVERED">>}
  \/ s = "READY" /\ t = "OUT_FOR_DELIVERY" /\ dt = "DELIVERY"
  \/ s = "READY" /\ t = "DELIVERED" /\ dt = "PICKUP"
  \/ t = "CANCELLED" /\ s \notin {"DELIVERED", "OUT_FOR_DELIVERY"}

\* C2: a created order starts at PENDING and every change of status follows
\* an edge of the state machine; no intermediate state is skipped.
C2_OnlyDocumentedEdges ==
  [][/\ (phase = "start" /\ phase' = "order") => status' = "PENDING"
     /\ (phase = "order" /\ status' # status)
          => Edge(status, status', deliveryType)]_orderVars

C2_Witness ==
  /\ status = "DELIVERED"
  /\ deliveryType = "DELIVERY"
  /\ call = Returned("markAsDelivered", "Ok")

\* C3: CANCELLED and DELIVERED are terminal: no call changes the status of
\* an order that is cancelled or delivered.
C3_TerminalStatus ==
  [][(status \in {"CANCELLED", "DELIVERED"}) => (status' = status)]_orderVars

C3_Witness ==
  /\ status = "CANCELLED"
  /\ call = Returned("confirm", BRV)
  /\ paymentStatus = "PAID"

\* C4: startPreparation succeeds only from CONFIRMED with paymentStatus PAID;
\* it fails as long as markPaymentAsPaid has not been called, so an order in
\* PREPARING has had markPaymentAsPaid called before.
C4_PreparationNeedsPayment ==
  [][/\ call' = Returned("startPreparation", "Ok")
          => (status = "CONFIRMED" /\ paymentStatus = "PAID")
     /\ (call'.op = "startPreparation" /\ ~paidCalled)
          => (call'.result = BRV /\ status' = status)
     /\ (status # "PREPARING" /\ status' = "PREPARING") => paidCalled]_orderVars

C4_Witness ==
  /\ call = Returned("startPreparation", "Ok")
  /\ status = "PREPARING"
  /\ paidCalled

\* C5: on a PICKUP order startDelivery fails in every status, so an order
\* that is OUT_FOR_DELIVERY has deliveryType DELIVERY.
C5_PickupNeverOutForDelivery ==
  /\ [](status = "OUT_FOR_DELIVERY" => deliveryType = "DELIVERY")
  /\ [][(call'.op = "startDelivery" /\ deliveryType = "PICKUP")
          => (call'.result = BRV /\ status' = status)]_orderVars

C5_Witness ==
  /\ call = Returned("startDelivery", BRV)
  /\ deliveryType = "PICKUP"
  /\ status = "READY"

\* C6: markAsDelivered succeeds exactly when the order is a PICKUP order in
\* READY or a DELIVERY order in OUT_FOR_DELIVERY; a DELIVERY order never
\* goes from READY to DELIVERED.
C6_DeliveredExactlyWhen ==
  [][/\ call'.op = "markAsDelivered"
          => /\ call'.result \in {"Ok", BRV}
             /\ call'.result = "Ok"
                  <=> \/ deliveryType = "PICKUP" /\ status = "READY"
                      \/ deliveryType = "DELIVERY" /\ status = "OUT_FOR_DELIVERY"
             /\ call'.result = "Ok" => status' = "DELIVERED"
             /\ call'.result = BRV => status' = status
     /\ (deliveryType = "DELIVERY" /\ status = "READY")
          => status' # "DELIVERED"]_orderVars

C6_Witness ==
  /\ call = Returned("markAsDelivered", BRV)
  /\ deliveryType = "DELIVERY"
  /\ status = "READY"

\* C7: cancel fails exactly in DELIVERED and OUT_FOR_DELIVERY; in any other
\* status it succeeds and the status becomes CANCELLED.
C7_CancelExactlyWhen ==
  [][call'.op = "cancel"
       => IF status \in {"DELIVERED", "OUT_FOR_DELIVERY"}
          THEN call'.result = BRV /\ status' = status
          ELSE call'.result = "Ok" /\ status' = "CANCELLED"]_orderVars

C7_Witness ==
  /\ call = Returned("cancel", BRV)
  /\ status = "OUT_FOR_DELIVERY"

StatusEvents ==
  SelectSeq(domainEvents, LAMBDA e : e.type = "OrderStatusChangedEvent")

\* the status events link up from PENDING to the current status
Chain(evs) ==
  /\ \A i \in 2..Len(evs) : evs[i].previousStatus = evs[i - 1].newStatus
  /\ IF evs = <<>> THEN status = "PENDING"
     ELSE evs[1].previousStatus = "PENDING" /\ evs[Len(evs)].newStatus = status

\* C8: a successful transition appends exactly one OrderStatusChangedEvent
\* going from the status before the call to the status after it, a failed one
\* appends nothing; while clearEvents has not been called the status events
\* form a chain from PENDING to the current status.
C8_StatusEventChain ==
  /\ []((phase = "order" /\ ~cleared) => Chain(StatusEvents))
  /\ [][call'.op \in TransitionMethods
          => IF call'.result = "Ok"
             THEN domainEvents' = Append(domainEvents,
                    [type |-> "OrderStatusChangedEvent",
                     previousStatus |-> status, newStatus |-> status'])
             ELSE domainEvents' = domainEvents]_orderVars

C8_Witness ==
  /\ ~cleared
  /\ Len(StatusEvents) = 5
  /\ status = "DELIVERED"

MsPerMinute == 60000

\* C9: a successful confirm sets estimatedDeliveryTime to now + 20 minutes
\* per unit of quantity + 30 minutes for a DELIVERY order + 10 minutes, which
\* is later than now; it is null after create and no other call changes it.
C9_EstimatedDeliveryTime ==
  [][/\ call' = Returned("confirm", "Ok")
          => /\ estimatedDeliveryTime' =
                  <<now + 20 * MsPerMinute * SumQuantity(items)
                        + (IF deliveryType = "DELIVERY" THEN 30 ELSE 0) * MsPerMinute
                        + 10 * MsPerMinute>>
             /\ estimatedDeliveryTime'[1] > now
     /\ call' # Returned("confirm", "Ok")
          => estimatedDeliveryTime' = estimatedDeliveryTime
     /\ call'.op = "create" => estimatedDeliveryTime' = <<>>]_orderVars

C9_Witness ==
  /\ call = Returned("confirm", "Ok")
  /\ deliveryType = "DELIVERY"
  /\ SumQuantity(items) = 3
  /\ now = 1
  /\ estimatedDeliveryTime = <<6000001>>

\* a string that is empty or only white space
Blank(s) == \A i \in 1..Len(s) : s[i] = " "

InvalidProps(p) ==
  \/ Blank(p.name)
  \/ Blank(p.phone)
  \/ p.items = <<>>
  \/ p.deliveryType = "DELIVERY" /\ p.deliveryAddress = <<>>
  \/ \E i \in 1..Len(p.items) : p.items[i].quantity <= 0

\* C10: Order.create returns a ValidationError and no order for a blank name
\* or phone, an empty item list, a DELIVERY order without address or a
\* quantity <= 0; for every other input it returns an order in PENDING with
\* paymentStatus PENDING, at least one item, an address when the order is a
\* DELIVERY order, and exactly one pending OrderCreatedEvent.
C10_CreateContract ==
  [][call'.op = "create"
       => IF InvalidProps(props)
          THEN call'.result = "ValidationError" /\ phase' = "rejected"
          ELSE /\ call'.result = "Ok"
               /\ phase' = "order"
               /\ status' = "PENDING"
               /\ paymentStatus' = "PENDING"
               /\ Len(items') >= 1
               /\ deliveryType' = "DELIVERY" => deliveryAddress' # <<>>
               /\ Len(domainEvents') = 1
               /\ domainEvents'[1].type = "OrderCreatedEvent"]_orderVars

(***************************************************************************)
(* Properties of the amounts of an order                                   *)
(***************************************************************************)
\* the sum of the prices of the items, first to last
RECURSIVE Subtotal(_)
Subtotal(its) ==
  IF its = <<>> THEN Zero
  ELSE NumAdd(Subtotal(SubSeq(its, 1, Len(its) - 1)),
              its[Len(its)].totalPrice.amount)

Amount(m) == IF m.threw THEN NaN ELSE m.amount

\* C11: Order.create gives the order a totalAmount that is the sum of the
\* items' totalPrice, a tax of 10% of it, a deliveryFee of 0 for PICKUP and 5
\* for DELIVERY whatever the address, and a grandTotal of totalAmount + tax +
\* deliveryFee; no later call changes them.
C11_OrderAmounts ==
  /\ [](call = Returned("create", "Ok")
         => /\ totalAmount = Money(Subtotal(items), items[1].totalPrice.currency)
            /\ tax = Money(NumMul(totalAmount.amount, Dec(1, 1)),
                           totalAmount.currency)
            /\ MoneyToCents(tax)
                 = MathRound(NumDivInt(MoneyToCents(totalAmount), 10))
            /\ deliveryFee = Money(FromInt(IF deliveryType = "PICKUP" THEN 0 ELSE 5),
                                   "USD")
            /\ Amount(grandTotal(totalAmount, tax, deliveryFee))
                 = NumAdd(NumAdd(totalAmount.amount, tax.amount),
                          deliveryFee.amount)
            /\ domainEvents[1].totalAmount
                 = grandTotal(totalAmount, tax, deliveryFee))
  /\ [][(phase = "order")
          => (totalAmount' = totalAmount /\ tax' = tax
              /\ deliveryFee' = deliveryFee)]_orderVars

C11_Witness ==
  /\ phase = "order"
  /\ deliveryType = "PICKUP"
  /\ deliveryAddress # <<>>
  /\ Len(items) = 2
  /\ deliveryFee.amount = Zero
  /\ MoneyToCents(tax) = FromInt(260)

\* C12: no operation of the core throws; every failure is a returned value.
C12_NothingThrows == phase # "threw" /\ call.result # "threw"

(***************************************************************************)
(* Properties of Money                                                     *)
(***************************************************************************)
\* x >= y
NumGeq(x, y) == ~IsNaN(x) /\ ~IsNaN(y) /\ ~NumLess(x, y)

\* C13: every Money obtained through create, fromCents, add, subtract and
\* multiply has amount >= 0; create with a negative amount, subtract below
\* zero and multiply by a negative factor fail with a ValidationError and
\* produce no Money.
C13_AmountNeverNegative ==
  /\ \A m \in {money.x, money.b, money.r} : m.threw \/ NumGeq(m.amount, Zero)
  /\ (money.call.op \in {"create", "multiply"} /\ NumLess(money.call.num, Zero))
       => money.call.result = "ValidationError"
  /\ (money.call.op = "subtract"
        /\ money.call.recv.currency = money.call.arg.currency
        /\ NumLess(money.call.recv.amount, money.call.arg.amount))
       => (money.call.result = "ValidationError" /\ money.r.threw)

\* C14: between two Money values of different currencies add, subtract,
\* isGreaterThan and isLessThan fail with a ValidationError, whatever the
\* amounts, and equals returns false.
C14_CrossCurrency ==
  (money.call.op # "none" /\ money.call.recv.currency # money.call.arg.currency)
    => /\ money.call.op \in {"add", "subtract", "isGreaterThan", "isLessThan"}
            => money.call.result = "ValidationError"
       /\ money.call.op = "equals" => money.call.result = "false"

C14_Witness ==
  /\ money.call.op = "subtract"
  /\ money.call.recv.currency = "EUR"
  /\ money.call.arg.currency = "USD"
  /\ IsNaN(money.call.recv.amount)
  /\ money.call.result = "ValidationError"

\* C15: for Money values a and b of the same currency and amounts >= 0,
\* a.add(b).subtract(b) succeeds and equals a.
C15_AddSubtractInverse ==
  (money.ops = <<"add", "subtract">> /\ money.x.currency = money.b.currency
     /\ NumGeq(money.x.amount, Zero))
    => (~money.r.threw /\ MoneyEquals(money.r, money.x))

ChainCalls == {"add", "subtract", "multiply"}

\* C16: Money.create(amount, currency) has that amount and currency; add,
\* subtract and multiply return a Money in the currency of the receiver,
\* multiply(0) one of amount 0, and they change neither the receiver nor the
\* argument.
C16_ImmutableSameCurrency ==
  /\ []((money.call.op = "create" /\ money.call.result = "Money")
          => (money.x.amount = money.call.num
              /\ money.x.currency = money.call.cur))
  /\ []((money.call.op \in ChainCalls /\ money.call.result = "Money")
          => /\ money.r.currency = money.call.recv.currency
             /\ (money.call.op = "multiply" /\ money.call.num = Zero)
                  => money.r.amount = Zero)
  /\ [][(money'.call.op \in ChainCalls /\ money'.call # money.call)
          => (money'.x = money.x /\ money'.b = money.b
              /\ money'.call.recv = money.r
              /\ money'.call.arg = money.b)]_vars

(***************************************************************************)
(* Properties of the pricing strategies                                    *)
(***************************************************************************)
SizeFactor ==
  [SMALL |-> Dec(8, 1), MEDIUM |-> FromInt(1), LARGE |-> Dec(13, 1),
   XLARGE |-> Dec(16, 1)]

NineTenths == Dec(9, 1)
EightyFiveHundredths == Dec(85, 2)
One == FromInt(1)

\* orderTime lies in [validFrom, validTo] and the sizes are absent or hold size
Applies(m, ctx) ==
  /\ ctx.orderTime \in m.validFrom..m.validTo
  /\ \A sizes \in {m.applicableToSizes[i] : i \in 1..Len(m.applicableToSizes)} :
       ctx.size \in sizes

Sized(base, ctx) == NumMul(base.amount, SizeFactor[ctx.size])

WithVIP(amount, ctx) ==
  NumMul(amount, IF ctx.customerType = "VIP" THEN NineTenths ELSE One)

WithHappyHour(amount, ctx) ==
  NumMul(amount, IF ctx.isHappyHour THEN EightyFiveHundredths ELSE One)

\* amount times the multiplier of every modifier of ms that applies, in order
RECURSIVE WithSeasonal(_, _, _)
WithSeasonal(amount, ms, ctx) ==
  IF ms = <<>> THEN amount
  ELSE NumMul(WithSeasonal(amount, SubSeq(ms, 1, Len(ms) - 1), ctx),
              IF Applies(ms[Len(ms)], ctx) THEN ms[Len(ms)].multiplier ELSE One)

FullPrice(base, ctx) ==
  WithSeasonal(WithHappyHour(WithVIP(Sized(base, ctx), ctx), ctx),
               ctx.seasonalModifiers, ctx)

PricedAt(amount) ==
  [threw |-> FALSE, amount |-> amount, currency |-> pricing.basePrice.currency]

\* the scenario of the specification: 16.99, LARGE, REGULAR, no happy hour,
\* one modifier of 1.1 that applies
Scenario ==
  /\ pricing.basePrice.amount = Dec(1699, 2)
  /\ pricing.context.size = "LARGE"
  /\ pricing.context.customerType = "REGULAR"
  /\ ~pricing.context.isHappyHour
  /\ Len(pricing.context.seasonalModifiers) = 1
  /\ pricing.context.seasonalModifiers[1].multiplier = Dec(11, 1)
  /\ Applies(pricing.context.seasonalModifiers[1], pricing.context)

\* C17: SeasonalPricingStrategy.calculatePrice is base x size factor x 0.9
\* for a VIP x 0.85 in happy hour x the multipliers of the applicable
\* modifiers, in the currency of base; the scenario gives 2430 cents.
C17_SeasonalFormula ==
  pricing.call.op = "Seasonal"
    => /\ pricing.call.result
            = PricedAt(FullPrice(pricing.basePrice, pricing.context))
       /\ Scenario => MoneyToCents(pricing.call.result) = FromInt(2430)

C17_Witness ==
  /\ pricing.call.op = "Seasonal"
  /\ Scenario
  /\ MoneyToCents(pricing.call.result) = FromInt(2430)

\* C18: Base applies the size factor only, VIP the size factor and the VIP
\* discount, HappyHour those and the happy-hour discount, whatever
\* isHappyHour and the modifiers are; only Seasonal applies all four.
C18_FixedComposition ==
  pricing.call.op # "none"
    => pricing.call.result
         = PricedAt(CASE pricing.call.op = "Base" ->
                           Sized(pricing.basePrice, pricing.context)
                      [] pricing.call.op = "VIP" ->
                           WithVIP(Sized(pricing.basePrice, pricing.context),
                                   pricing.context)
                      [] pricing.call.op = "HappyHour" ->
                           WithHappyHour(
                             WithVIP(Sized(pricing.basePrice, pricing.context),
                                     pricing.context), pricing.context)
                      [] pricing.call.op = "Seasonal" ->
                           FullPrice(pricing.basePrice, pricing.context))

C18_Witness ==
  /\ pricing.call.op = "VIP"
  /\ pricing.context.customerType = "VIP"
  /\ pricing.context.isHappyHour
  /\ Len(pricing.context.seasonalModifiers) = 2
  /\ \A i \in 1..2 :
       Applies(pricing.context.seasonalModifiers[i], pricing.context)
  /\ pricing.call.result.amount
       = NumMul(NumMul(pricing.basePrice.amount, Dec(16, 1)), NineTenths)

\* the sequence ms without its i-th element
Without(ms, i) == SubSeq(ms, 1, i - 1) \o SubSeq(ms, i + 1, Len(ms))

WithoutModifier(i) ==
  SeasonalPricingStrategy(
    pricing.basePrice,
    [pricing.context EXCEPT
       !.seasonalModifiers = Without(pricing.context.seasonalModifiers, i)])

C20_UserStatus ==
  [][/\ (user'.call.op = "suspend" /\ user.status # "DELETED")
          => (user'.call.result = "Ok" /\ user'.status = "SUSPENDED")
     /\ (user'.call.op = "activate" /\ user.status # "DELETED")
          => (user'.call.result = "Ok" /\ user'.status = "ACTIVE")
     /\ (user'.call.op = "delete")
          => (user'.status = "DELETED" /\ user'.deleted)
     /\ (user.deleted)
          => /\ user.status = "DELETED"
             /\ user'.status = "DELETED"
             /\ user'.call.op \in {"suspend", "activate"}
                  => user'.call.result = "ValidationError"]_vars

C20_Witness ==
  /\ user.deleted
  /\ user.status = "DELETED"
  /\ user.emailVerified
  /\ user.call = Returned("activate", "ValidationError")

\* the number of events of one type in a list of pending events
CountOf(type, events) ==
  Cardinality({i \in 1..Len(events) : events[i] = type})

\* C21: verifyEmail on a user whose email is not verified sets emailVerified
\* and appends one UserActivatedEvent; on a verified user it changes nothing
\* and emits nothing, so a user never holds more than one UserActivatedEvent;
\* User.create leaves exactly one UserCreatedEvent, User.reconstitute none,
\* and no method emits a UserCreatedEvent.
C21_VerifyEmailIdempotent ==
  /\ [](/\ user.call.op = "create" => user.domainEvents = <<"UserCreatedEvent">>
        /\ user.call.op = "reconstitute" => user.domainEvents = <<>>
        /\ CountOf("UserActivatedEvent", user.domainEvents) <= 1)
  /\ [][/\ (user'.call.op = "verifyEmail" /\ ~user.emailVerified)
             => /\ user'.emailVerified
                /\ user'.domainEvents
                     = Append(user.domainEvents, "UserActivatedEvent")
        /\ (user'.call.op = "verifyEmail" /\ user.emailVerified)
             => user' = [user EXCEPT !.call = user'.call]
        /\ CountOf("UserCreatedEvent", user'.domainEvents)
             = CountOf("UserCreatedEvent", user.domainEvents)]_vars

C21_Witness ==
  /\ user.call.op = "verifyEmail"
  /\ user.emailVerified
  /\ user.status = "SUSPENDED"
  /\ user.domainEvents = <<"UserCreatedEvent", "UserActivatedEvent">>

(***************************************************************************)
(* Properties of RegisterUserUseCase                                       *)
(***************************************************************************)
\* the error a finished call returned, "none" when it returned Ok or has
\* not returned
ErrorOf(e) ==
  IF e.result # <<>> /\ ~e.result[1].ok THEN e.result[1].name ELSE "none"

\* a request that breaks one of the rules of User.create
Rejected(r) ==
  \/ \A i \in 1..Len(r.email) : r.email[i] # "."
  \/ \A i \in 1..Len(r.password) : r.password[i] \notin Digits
  \/ Blank(r.firstName)
  \/ Blank(r.lastName)
  \/ Len(r.phone) < 10

\* C22: a call whose existsByEmail answered true returns an
\* AlreadyExistsError and never calls save; a call whose request User.create
\* rejects returns a ValidationError and never calls save; save is called at
\* most once, only after existsByEmail answered false and User.create
\* accepted, and when the statement of save fails the call returns that
\* error and the table is as before.
C22_SaveOnlyAfterChecks ==
  /\ [](\A c \in Callers :
          LET e == register.exec[c]
          IN /\ e.saves <= 1
             /\ e.saves = 1 => (e.existingUser = <<FALSE>> /\ ~Rejected(e.request))
             /\ e.existingUser = <<TRUE>>
                  => (e.saves = 0 /\ ErrorOf(e) = "AlreadyExistsError")
             /\ (e.existingUser = <<FALSE>> /\ Rejected(e.request))
                  => (e.saves = 0 /\ (e.pc = "done" => ErrorOf(e) = "ValidationError"))
             /\ ErrorOf(e) \in {"AlreadyExistsError", "ValidationError"}
                  => e.saves = 0)
  /\ [][\A c \in Callers :
          register'.exec[c].saves # register.exec[c].saves
            => /\ register'.exec[c].pc = "done"
               /\ IF register'.rows = register.rows
                  THEN ErrorOf(register'.exec[c]) = "Error"
                  ELSE register'.exec[c].result[1].ok]_vars

C22_Witness ==
  \E c \in Callers :
    /\ register.exec[c].saves = 1
    /\ ErrorOf(register.exec[c]) = "Error"
    /\ register.exec[c].result[1].message = "connection refused"
    /\ \E d \in Callers :
         /\ register.exec[d].existingUser = <<TRUE>>
         /\ ErrorOf(register.exec[d]) = "AlreadyExistsError"
         /\ register.exec[d].saves = 0

\* a call that has returned without meeting a database that cannot be reached
Answered(e) ==
  /\ e.pc = "done"
  /\ ~Rejected(e.request)
  /\ e.result[1].ok \/ e.result[1].message # "connection refused"

\* C27: when two calls register the same email, not registered before, and
\* both have returned, one has returned Ok and the other an
\* AlreadyExistsError, and the table holds one row with that email.
C27_ConcurrentRegistration ==
  \A c, d \in Callers :
    (/\ c # d
     /\ StoredRow \notin register.rows
     /\ toLowerCase(register.exec[c].request.email)
          = toLowerCase(register.exec[d].request.email)
     /\ Answered(register.exec[c])
     /\ Answered(register.exec[d]))
    => /\ \/ register.exec[c].result[1].ok
                /\ ErrorOf(register.exec[d]) = "AlreadyExistsError"
          \/ register.exec[d].result[1].ok
                /\ ErrorOf(register.exec[c]) = "AlreadyExistsError"
       /\ Cardinality({r \in register.rows :
                         r.email = toLowerCase(register.exec[c].request.email)}) = 1

(***************************************************************************)
(* Properties of memoize                                                   *)
(***************************************************************************)
\* the invocations of the wrapped function made for one cache key
Invocations(key) ==
  {j \in 1..Len(memo.invoked) : cacheKey(memo.getKey, memo.invoked[j]) = key}

\* the calls of the memoized function made with one cache key
CallsWith(key) == {j \in 1..Len(memo.calls) : memo.calls[j].key = key}

FirstOf(S) == CHOOSE j \in S : \A k \in S : j <= k

\* C24, as stated: for every key called, the wrapped function has been
\* invoked exactly once and every call with that key has the outcome of the
\* first call with that key.
C24_OncePerKey ==
  \A i \in 1..Len(memo.calls) :
    /\ Cardinality(Invocations(memo.calls[i].key)) = 1
    /\ memo.calls[i].threw = memo.calls[FirstOf(CallsWith(memo.calls[i].key))].threw
    /\ memo.calls[i].value = memo.calls[FirstOf(CallsWith(memo.calls[i].key))].value

\* the calls with one key that returned, and those that threw
ReturnedWith(key) == {j \in CallsWith(key) : ~memo.calls[j].threw}

ThrownWith(key) == {j \in CallsWith(key) : memo.calls[j].threw}

\* C24, amended: for every key called, the wrapped function has been invoked
\* once by every call that threw and once more if a call has returned, a call
\* throws only before the first call that returns, and every call that
\* returns has the value of the first call with that key that returned.
C24_OncePerKeyReturned ==
  \A i \in 1..Len(memo.calls) :
    LET key == memo.calls[i].key
    IN /\ Cardinality(Invocations(key))
            = Cardinality(ThrownWith(key))
                + (IF ReturnedWith(key) = {} THEN 0 ELSE 1)
       /\ ~memo.calls[i].threw
            => /\ memo.calls[i].value = memo.calls[FirstOf(ReturnedWith(key))].value
               /\ \A j \in ThrownWith(key) : j < FirstOf(ReturnedWith(key))

C24_Witness ==
  /\ memo.getKey = "id"
  /\ Len(memo.calls) = 3
  /\ Len(memo.invoked) = 2
  /\ memo.calls[1].threw
  /\ memo.calls[2].args = [id |-> 1, name |-> "John"]
  /\ memo.calls[3].args = [id |-> 1, name |-> "Jane"]
  /\ memo.calls[3].value = <<"1">>

(***************************************************************************)
(* Properties of AuthenticateUserUseCase                                   *)
(***************************************************************************)
\* the stored account a request names, if any
AccountsOf(request) ==
  {r \in auth.rows : r.email = toLowerCase(request.email)}

\* C23: a call with the email of a stored account and a password that is not
\* the account's fails with the same message as a call with an email that no
\* account has.
C23_SameMessage ==
  \A i, j \in 1..Len(auth.calls) :
    (/\ AccountsOf(auth.calls[i].request) # {}
     /\ auth.calls[i].request.password = WrongPassword
     /\ AccountsOf(auth.calls[j].request) = {})
    => /\ ~auth.calls[i].result.ok
       /\ ~auth.calls[j].result.ok
       /\ auth.calls[i].result.message = auth.calls[j].result.message

(***************************************************************************)
(* Properties of the payment status of an order                            *)
(***************************************************************************)
\* C25: an order in PREPARING, READY, OUT_FOR_DELIVERY or DELIVERED has
\* paymentStatus PAID.
C25_PaidWhilePrepared ==
  (phase = "order"
     /\ status \in {"PREPARING", "READY", "OUT_FOR_DELIVERY", "DELIVERED"})
  => paymentStatus = "PAID"

\* C26: a transition method, whether it returns Ok or an error, leaves
\* items, totalAmount, tax, deliveryFee (and so grandTotal), deliveryType and
\* paymentStatus as they are; markPaymentAsPaid sets paymentStatus to PAID
\* and markPaymentAsFailed sets it to FAILED in every status, and both leave
\* everything else, status, estimatedDeliveryTime and the events included,
\* as it is.
C26_Frame ==
  [][phase = "order"
       => /\ call'.op \in TransitionMethods
               => /\ items' = items
                  /\ totalAmount' = totalAmount
                  /\ tax' = tax
                  /\ deliveryFee' = deliveryFee
                  /\ deliveryType' = deliveryType
                  /\ paymentStatus' = paymentStatus
          /\ call'.op \in {"markPaymentAsPaid", "markPaymentAsFailed"}
               => /\ paymentStatus'
                       = (IF call'.op = "markPaymentAsPaid" THEN "PAID" ELSE "FAILED")
                  /\ status' = status
                  /\ estimatedDeliveryTime' = estimatedDeliveryTime
                  /\ domainEvents' = domainEvents
                  /\ items' = items
                  /\ totalAmount' = totalAmount
                  /\ tax' = tax
                  /\ deliveryFee' = deliveryFee
                  /\ deliveryType' = deliveryType
                  /\ deliveryAddress' = deliveryAddress]_orderVars

C26_Witness ==
  /\ phase = "order"
  /\ status = "DELIVERED"
  /\ paymentStatus = "FAILED"
  /\ call = Returned("markPaymentAsFailed", "void")
  /\ Len(domainEvents) = 5

(***************************************************************************)
(* Properties of the middleware                                            *)
(***************************************************************************)
\* the caller holds an access token that verifies
HoldsAccessToken ==
  mw.request.accessToken # <<>> /\ mw.request.accessToken[1].verifies

\* a path that starts with /api/admin or with /api/menu/pizzas
AdminPrefixed(pathname) ==
  Head(pathname) \in {"/api/admin", "/api/menu/pizzas"}

RECURSIVE ExpectedCalls(_, _)
ExpectedCalls(handlers, events) ==
  IF events = <<>> THEN <<>>
  ELSE LET event == events[Len(events)]
           hs == IF event \in DOMAIN handlers THEN handlers[event] ELSE <<>>
       IN ExpectedCalls(handlers, SubSeq(events, 1, Len(events) - 1))
            \o [i \in 1..Len(hs) |-> <<hs[i].name, event>>]

\* the handler and the event of each call of handle made so far
CallsMade(handled) ==
  [i \in 1..Len(handled) |-> <<handled[i].handler, handled[i].event>>]

\* the user's row is in the table
RowWritten(r) == \E row \in r.rows : row.id = r.user.id

\* C28: when the statement of save fails, save returns the error, no handler
\* is called and the pending events stay; when it succeeds the row is in the
\* table and the aggregate has no pending events before any handler is
\* called; the dispatch then calls, for each event in the order raised,
\* every handler registered for its type once, whether or not handlers
\* reject, and save returns Ok; handlers are called at no other time.
C28_DispatchAfterWrite ==
  [][/\ (repo.pc = "idle" /\ repo'.pc = "dispatch")
          => /\ RowWritten(repo')
             /\ repo'.handled = repo.handled
             /\ repo'.events = repo.user.domainEvents
             /\ repo'.user.domainEvents = <<>>
     /\ (repo.pc = "idle" /\ repo'.pc = "idle" /\ repo'.call.op = "save")
          => /\ repo'.call.result = "Error"
             /\ ~repo'.returned[1].ok
             /\ repo'.rows = repo.rows
             /\ repo'.handled = repo.handled
             /\ repo'.user.domainEvents = repo.user.domainEvents
     /\ (repo.pc = "dispatch")
          => /\ RowWritten(repo)
             /\ CallsMade(repo'.handled)
                  = CallsMade(repo.handled)
                      \o ExpectedCalls(repo.handlers, repo.events)
             /\ repo'.call.result = "Ok"
             /\ repo'.returned = <<Ok(toDomain(repo.savedUser[1]))>>
             /\ repo'.user.domainEvents = <<>>
     /\ (repo'.handled # repo.handled) => repo.pc = "dispatch"]_vars

C28_Witness ==
  /\ repo.pc = "idle"
  /\ repo.call = Returned("save", "Ok")
  /\ Len(repo.handled) = 3
  /\ repo.handled[1].handler = "UserCreatedEventHandler"
  /\ repo.handled[2].handler = "first"
  /\ repo.handled[2].outcome = "rejected"
  /\ repo.handled[2].event = "UserCreatedEvent"
  /\ repo.handled[3].event = "UserActivatedEvent"

\* C30: the user that findById returns right after a successful save has
\* the status, emailVerified, lastLoginAt and password hash of the user
\* saved, whether save inserted the row or updated it.
C30_SaveThenLoad ==
  [][(/\ repo.pc = "idle"
      /\ repo.call = Returned("save", "Ok")
      /\ repo'.call = Returned("findById", "Ok"))
     => /\ repo'.returned[1].value.status = repo.user.status
        /\ repo'.returned[1].value.emailVerified = repo.user.emailVerified
        /\ repo'.returned[1].value.lastLoginAt = repo.user.lastLoginAt
        /\ repo'.returned[1].value.passwordHash = repo.user.passwordHash]_vars

====
